---- MODULE Spec2Model ----
(***************************************************************************)
(* Model of lasso's SharedHandler (pkg/controller/sharedhandler.go): the   *)
(* handler registry guarded by an RWMutex, the per-registration watcher    *)
(* goroutine that removes an entry when its context is cancelled, and the  *)
(* OnChange dispatch pass with its error aggregation (errorList,           *)
(* handlerError) and object threading; and of pkg/tracing: the             *)
(* ObjectCarrier over an object's annotations, Extract and Inject.         *)
(***************************************************************************)
EXTENDS Integers, Sequences, FiniteSets, TLC

(***************************************************************************)
(* Bounds of the model.                                                    *)
(***************************************************************************)
\* Register is called at most MaxRegs times in a behaviour of SpecRegistry,
MaxRegs == 3
\* at most MaxFlightRegs times in a behaviour of Spec,
MaxFlightRegs == 2
\* and at most MaxPassRegs times in a behaviour of SpecPass.
MaxPassRegs == 3
\* cancel() of one context is called at most MaxCancels times.
MaxCancels == 2

\* The goroutines that call OnChange, one call each.
Calls == {"c1", "c2"}
\* The contexts (lifetime scopes) handed to Register.
Scopes == {"s1", "s2"}
\* The names handed to Register.
Names == {"h1", "h2"}
\* controllerGVR of the SharedHandler.
ControllerGVR == "gvr"
\* The trace ids and span ids of the span contexts handed to Inject.
TraceIDs == {"t1", "t2"}
SpanIDs == {"p1", "p2"}
\* The objects whose annotations are kept, and the place of a deep copy.
Refs == {"o1"}
CopyRef == "copy"
\* The objects the dispatch specifications hand to OnChange and to handlers.
DispatchRefs == {"o1", "o2", "r1", "r2", "r3", "r4"}

(***************************************************************************)
(* Values: errors, objects, registry entries.                              *)
(***************************************************************************)
\* error(nil)
NilErr == [kind |-> "nil", msg |-> "", unwrap |-> <<>>]

\* var ErrIgnore = errors.New("ignore handler error")
ErrIgnore == [kind |-> "sentinel", msg |-> "ignore handler error", unwrap |-> <<>>]

\* errors.New(m): a fresh error value, equal to no other
PlainErr(m) == [kind |-> "plain", msg |-> m, unwrap |-> <<>>]

\* fmt.Errorf(prefix + ": %w", e): its Unwrap returns e
WrapErr(prefix, e) == [kind |-> "wrap", msg |-> prefix \o ": " \o e.msg, unwrap |-> <<e>>]

\* errors.Is(err, target): err or an error of its Unwrap chain is target
RECURSIVE ErrorsIs(_, _)
ErrorsIs(err, target) ==
    \/ err = target
    \/ /\ Len(err.unwrap) > 0
       /\ ErrorsIs(err.unwrap[1], target)

\* runtime.Object(nil)
NilObj == [ref |-> "nil", kind |-> "nil", uid |-> ""]

\* a *T that implements metav1.Object, with its UID
MetaObj(r, u) == [ref |-> r, kind |-> "meta", uid |-> u]

\* a typed nil pointer (*T)(nil) stored in the runtime.Object interface
NilPtrObj(r) == [ref |-> r, kind |-> "nilptr", uid |-> ""]

\* a non-nil runtime.Object for which meta.Accessor returns an error
OpaqueObj(r) == [ref |-> r, kind |-> "opaque", uid |-> ""]

\* a *metav1.Status
StatusObj(r) == [ref |-> r, kind |-> "status", uid |-> ""]

\* meta.TypeAccessor(obj): whether it fails
TypeAccessor(o) == [err |-> o.kind \notin {"meta", "status"}]

\* meta.Accessor(obj): the accessor's error and the UID read through it
Accessor(o) == [err |-> o.kind # "meta", uid |-> o.uid]

\* handlerEntry{}: the zero value, with a nil handler
ZeroEntry == [id |-> 0, name |-> "", handler |-> "nil"]

\* handlerEntry{id: id, name: name, handler: handler}
handlerEntry(id, name) == [id |-> id, name |-> name, handler |-> "func"]

(***************************************************************************)
(* State.                                                                  *)
(***************************************************************************)
VARIABLES
    idCounter,   \* SharedHandler.idCounter
    handlers,    \* SharedHandler.handlers
    lock,        \* SharedHandler.lock: the calls that hold the read lock
    ctxDone,     \* the contexts whose Done channel is closed
    cancels,     \* per context, how often cancel() was called
    watcher,     \* per registration id: the goroutine Register started
    pc,          \* per call: position in OnChange
    obj,         \* per call: local obj
    allocLen,    \* per call: length of the local handlers slice (make)
    snapshot,    \* per call: the local handlers slice
    idx,         \* per call: position of the range loop over the snapshot
    errs,        \* per call: local errs (errorList)
    ret,         \* per call: the error OnChange returned
    span,        \* per call: the top-level span
    metrics,     \* per call: the reports made to the metrics package
    log,         \* per call: the handler invocations made, with what they returned
    atLock,      \* per call: SharedHandler.handlers when RLock was acquired
    atStart,     \* per call: idCounter when OnChange was entered
    hspans,      \* per call: the handler-level spans started so far, in order
    cobj,        \* the object handed to the carrier operations
    annotations, \* per object: its annotation map (ObjectMeta.Annotations)
    last,        \* the last carrier operation: its arguments and results
    injected,    \* the last two valid span contexts handed to Inject, latest last
    sdk,         \* whether a tracer provider that records spans is installed
    annPtr,      \* concurrent carriers: the annotations field of the object, a map or "nil"
    maps,        \* concurrent carriers: the entries of each allocated map
    held,        \* concurrent carriers: per carrier, whether its mutex is locked
    carrierOf,   \* concurrent carriers: the carrier each goroutine operates through
    rp,          \* concurrent carriers: each goroutine's operation, position and locals
    fatal,       \* concurrent carriers: the runtime ended the process (fatal error)
    enabled,     \* tracing.go distributedTracingEnabled
    clientCfg,   \* Client: its timeout and kind
    lastCall,    \* Client: the latest operation, its span, its timeout context, its result
    undEvents,   \* Watch: the events the underlying watch has still to send
    undClosed,   \* Watch: the underlying result channel is closed after those events
    fwd,         \* Watch: the forwarding goroutine, its position and the event it holds
    delivered,   \* Watch: the events received from the wrapper's result channel
    chanClosed,  \* Watch: the wrapper's result channel is closed
    consumer     \* Watch: whether the consumer still receives

regVars == <<idCounter, handlers, ctxDone, cancels, watcher>>
callVars == <<pc, obj, allocLen, snapshot, idx, errs, ret, span, metrics, log, atLock, atStart,
              hspans>>
carrierVars == <<cobj, annotations, last, injected>>
raceVars == <<annPtr, maps, held, carrierOf, rp, fatal>>
clientVars == <<enabled, clientCfg, lastCall>>
watchVars == <<undEvents, undClosed, fwd, delivered, chanClosed, consumer>>
envVars == <<sdk, raceVars, clientVars, watchVars>>
vars == <<idCounter, handlers, lock, ctxDone, cancels, watcher, pc, obj, allocLen,
          snapshot, idx, errs, ret, span, metrics, log, atLock, atStart, hspans,
          cobj, annotations, last, injected, sdk,
          annPtr, maps, held, carrierOf, rp, fatal, enabled, clientCfg, lastCall,
          undEvents, undClosed, fwd, delivered, chanClosed, consumer>>

(***************************************************************************)
(* The registry: Register and the watcher goroutine it starts.             *)
(***************************************************************************)
\* an id read from the counter without advancing it
NextIdNoAdd(counter) == counter

\* id := atomic.AddInt64(&h.idCounter, 1)
NextId(counter) == counter + 1

\* h.handlers = append(h.handlers, handlerEntry{...})
AppendEntry(hs, e) == Append(hs, e)

\* for i := range h.handlers { if h.handlers[i].id == id {...; break} }:
\* the first position whose entry has this id, 0 when there is none
IndexOfId(hs, id) ==
    IF \E i \in 1..Len(hs) : hs[i].id = id
    THEN CHOOSE i \in 1..Len(hs) :
            /\ hs[i].id = id
            /\ \A j \in 1..(i - 1) : hs[j].id # id
    ELSE 0

\* a removal that moves the last entry into the freed position
RemoveAtSwap(hs, i) ==
    IF i = Len(hs) THEN SubSeq(hs, 1, i - 1)
    ELSE [SubSeq(hs, 1, Len(hs) - 1) EXCEPT ![i] = hs[Len(hs)]]

\* append(h.handlers[:i], h.handlers[i+1:]...)
RemoveAt(hs, i) == SubSeq(hs, 1, i - 1) \o SubSeq(hs, i + 1, Len(hs))

\* a removal that takes the id for the position of the entry
RemoveByPosition(hs, id) ==
    IF id <= Len(hs) THEN RemoveAt(hs, id) ELSE hs

\* the loop of the watcher goroutine: remove the entry with this id, if any
RemoveById(hs, id) ==
    IF IndexOfId(hs, id) = 0 THEN hs ELSE RemoveAt(hs, IndexOfId(hs, id))

\* h.lock.Lock() succeeds: nobody holds the read lock (writers hold the lock
\* for one whole step, so no writer is ever seen holding it)
CanLock == lock = {}

\* SharedHandler.Register(ctx, name, handler)
Register(s, name, max) ==
    /\ idCounter < max
    /\ Len(handlers) < max
    /\ CanLock
    /\ LET id == NextId(idCounter) IN
        /\ idCounter' = id
        /\ handlers' = AppendEntry(handlers, handlerEntry(id, name))
        /\ watcher' = [i \in DOMAIN watcher \cup {id} |->
                          IF i = id THEN [ctx |-> s, pc |-> "waiting", removed |-> 0]
                          ELSE watcher[i]]
    /\ UNCHANGED <<lock, ctxDone, cancels>>
    /\ UNCHANGED callVars
    /\ UNCHANGED carrierVars
    /\ UNCHANGED envVars

\* the CancelFunc of a context handed to Register: closes ctx.Done()
Cancel(s) ==
    /\ cancels[s] < MaxCancels
    /\ ctxDone' = ctxDone \cup {s}
    /\ cancels' = [cancels EXCEPT ![s] = @ + 1]
    /\ UNCHANGED <<idCounter, handlers, lock, watcher>>
    /\ UNCHANGED callVars
    /\ UNCHANGED carrierVars
    /\ UNCHANGED envVars

\* the goroutine of Register: <-ctx.Done(), then remove the entry under the lock
WatcherRemove(id) ==
    /\ id \in DOMAIN watcher
    /\ watcher[id].pc = "waiting"
    /\ watcher[id].ctx \in ctxDone
    /\ CanLock
    /\ handlers' = RemoveById(handlers, id)
    /\ watcher' = [watcher EXCEPT ![id] =
                      [ctx |-> @.ctx, pc |-> "exited",
                       removed |-> Len(handlers) - Len(handlers')]]
    /\ UNCHANGED <<idCounter, lock, ctxDone, cancels>>
    /\ UNCHANGED callVars
    /\ UNCHANGED carrierVars
    /\ UNCHANGED envVars

(***************************************************************************)
(* errorList and handlerError.                                             *)
(***************************************************************************)
\* &handlerError{HandlerName: name, Err: err}
handlerError(name, err) == [HandlerName |-> name, Err |-> err]

\* handlerError.Error(): fmt.Sprintf("handler %s: %v", h.HandlerName, h.Err)
HandlerErrorError(h) == "handler " \o h.HandlerName \o ": " \o h.Err.msg

\* handlerError.Cause()
HandlerErrorCause(h) == h.Err

\* an Error() that writes the separator before every entry
RECURSIVE ErrorListLoopLeadingSep(_, _, _)
ErrorListLoopLeadingSep(e, i, buf) ==
    IF i > Len(e) THEN buf
    ELSE ErrorListLoopLeadingSep(e, i + 1, buf \o ", " \o HandlerErrorError(e[i]))

\* errorList.Error(): the loop over e, with buf the strings.Builder
RECURSIVE ErrorListLoop(_, _, _)
ErrorListLoop(e, i, buf) ==
    IF i > Len(e) THEN buf
    ELSE ErrorListLoop(e, i + 1,
             (IF Len(buf) > 0 THEN buf \o ", " ELSE buf) \o HandlerErrorError(e[i]))

ErrorListError(e) == ErrorListLoop(e, 1, "")

\* the error interface value nil
NilRet == [type |-> "nil", list |-> <<>>]

\* a ToErr that returns the list itself for a single entry
ToErrNoSingle(e) ==
    IF Len(e) = 0 THEN [type |-> "nil", list |-> <<>>]
    ELSE [type |-> "errorList", list |-> e]

\* errorList.ToErr()
ToErr(e) ==
    CASE Len(e) = 0 -> NilRet
      [] Len(e) = 1 -> [type |-> "handlerError", list |-> <<e[1]>>]
      [] OTHER -> [type |-> "errorList", list |-> e]

\* errorList.Cause()
ErrorListCause(e) ==
    IF Len(e) > 0 THEN [type |-> "handlerError", list |-> <<e[1]>>] ELSE NilRet

\* err.Error() of the error OnChange returns
RetError(r) ==
    IF r.type = "handlerError" THEN HandlerErrorError(r.list[1])
    ELSE ErrorListError(r.list)

(***************************************************************************)
(* Tracing: annotation maps, the ObjectCarrier, Extract and Inject         *)
(* (pkg/tracing), with the W3C trace-context propagator the program        *)
(* installs (propagation.TraceContext).                                    *)
(***************************************************************************)
\* map[string]string(nil)
NilAnn == [isNil |-> TRUE, m |-> {}]

\* a non-nil map[string]string with the entries m, a set of <<key, value>>
Ann(m) == [isNil |-> FALSE, m |-> m]

\* make(map[string]string)
MakeAnn == Ann({})

\* len(existingAnn)
AnnLen(ann) == Cardinality(ann.m)

\* existingAnn[key] of a map that may be nil: the zero value when unmapped
MapIndex(ann, key) ==
    IF \E p \in ann.m : p[1] = key
    THEN (CHOOSE p \in ann.m : p[1] = key)[2]
    ELSE ""

\* existingAnn[key] = value
MapAssign(ann, key, value) ==
    Ann({p \in ann.m : p[1] # key} \cup {<<key, value>>})

\* the keys of a map
MapKeys(ann) == {p[1] : p \in ann.m}

\* the orders in which a range loop may visit the entries of a map
RangeOrders(ann) ==
    {s \in [1..AnnLen(ann) -> ann.m] : \A i, j \in 1..AnnLen(ann) : i # j => s[i] # s[j]}

\* the ids a recording tracer generates for call c: the id of a trace it
\* begins, of the top-level span, of the span of the k-th handler
RootTraceID(c) == "T" \o c
TopSpanID(c) == "S" \o c
HandlerSpanID(c, k) == "S" \o c \o "h" \o ToString(k)

\* the caller of the Client operations, for the ids of their spans
ClientCaller == "k"

\* the ids a traceparent header may name
AllTraceIDs == TraceIDs \cup {RootTraceID(c) : c \in Calls \cup {ClientCaller}}
AllSpanIDs ==
    SpanIDs \cup {TopSpanID(c) : c \in Calls \cup {ClientCaller}}
            \cup {HandlerSpanID(c, k) : c \in Calls, k \in 1..(MaxRegs + MaxPassRegs)}

\* trace.SpanContext{}: the span context of a context that carries none
NoSpanContext == [traceID |-> "", spanID |-> "", remote |-> FALSE]

\* the span context of a span of trace t
SpanContext(t, s) == [traceID |-> t, spanID |-> s, remote |-> FALSE]

\* SpanContext.IsValid()
IsValid(sc) == sc.traceID # "" /\ sc.spanID # ""

\* tracing.HasParent(ctx)
HasParent(ctx) == IsValid(ctx) /\ ctx.remote

\* the annotation key of propagation.TraceContext
TraceparentHeader == "traceparent"

\* propagation.TraceContext: the header value written for a span context
FormatTraceparent(sc) == "00-" \o sc.traceID \o "-" \o sc.spanID \o "-01"

\* the well-formed header values, each with the span context it names
WellFormedHeaders ==
    {<<FormatTraceparent(SpanContext(t, s)), SpanContext(t, s)>> :
        t \in AllTraceIDs, s \in AllSpanIDs}

\* propagation.TraceContext: the span context read from a header value, the
\* empty span context when the value is not a well-formed header
ParseTraceparent(v) ==
    IF \E p \in WellFormedHeaders : p[1] = v
    THEN (CHOOSE p \in WellFormedHeaders : p[1] = v)[2]
    ELSE NoSpanContext

\* Tracer.Start(ctx, name), ctx carrying the span context parent: the span
\* context of the span started. A recording tracer continues the trace of a
\* valid parent and begins a new trace otherwise; the tracer in place while
\* no provider is installed passes the span context of ctx on unchanged
TracerStart(recording, parent, c, spanID) ==
    IF recording
    THEN SpanContext(IF IsValid(parent) THEN parent.traceID ELSE RootTraceID(c), spanID)
    ELSE parent

\* ObjectCarrier.isNil()
isNil(o) == o = NilObj

\* NewObjectCarrier(obj)
NewObjectCarrier(o) == [Object |-> o]

\* obj.DeepCopyObject(): a method call on the interface, which faults when
\* the interface is nil; the copy is a new object with a copy of the map
DeepCopyObject(h, o) ==
    IF o = NilObj
    THEN [panic |-> TRUE, obj |-> NilObj, heap |-> h]
    ELSE [panic |-> FALSE,
          obj |-> [o EXCEPT !.ref = CopyRef],
          heap |-> [r \in DOMAIN h \cup {CopyRef} |-> IF r = CopyRef THEN h[o.ref] ELSE h[r]]]

\* ObjectCarrier.Get(key)
Get(h, carrier, key) ==
    IF isNil(carrier.Object) THEN ""
    ELSE IF Accessor(carrier.Object).err THEN ""
    ELSE IF h[carrier.Object.ref].isNil THEN ""
    ELSE MapIndex(h[carrier.Object.ref], key)

\* a Set that writes the annotation although meta.Accessor failed
SetIgnoringAccessorError(h, carrier, key, value) ==
    IF isNil(carrier.Object) THEN h
    ELSE [h EXCEPT ![carrier.Object.ref] = MapAssign(IF @.isNil THEN MakeAnn ELSE @, key, value)]

\* a Set that stores a new map holding the one entry
SetFreshMap(h, carrier, key, value) ==
    IF isNil(carrier.Object) \/ Accessor(carrier.Object).err THEN h
    ELSE [h EXCEPT ![carrier.Object.ref] = MapAssign(MakeAnn, key, value)]

\* ObjectCarrier.Set(key, value): the annotations of the objects afterwards
Set(h, carrier, key, value) ==
    IF isNil(carrier.Object) THEN h
    ELSE IF Accessor(carrier.Object).err THEN h
    ELSE [h EXCEPT ![carrier.Object.ref] = MapAssign(IF @.isNil THEN MakeAnn ELSE @, key, value)]

\* the loop of ObjectCarrier.Keys over the entries in range order: i++, then
\* keys[i] = k with k the value of the entry; keys is the slice so far, whose
\* length the loop never changes; an index at or beyond it faults
RECURSIVE KeysLoop(_, _, _)
KeysLoop(entries, i, keys) ==
    IF entries = <<>> THEN [panic |-> FALSE, keys |-> keys]
    ELSE IF i + 1 >= Len(keys) THEN [panic |-> TRUE, keys |-> <<>>]
    ELSE KeysLoop(Tail(entries), i + 1, [keys EXCEPT ![i + 2] = Head(entries)[2]])

\* ObjectCarrier.Keys(), the map being ranged over in the order ord:
\* keys := make([]string, 0, len(existingAnn)) has length 0
Keys(h, carrier, ord) ==
    IF isNil(carrier.Object) THEN [panic |-> FALSE, keys |-> <<>>]
    ELSE IF Accessor(carrier.Object).err THEN [panic |-> FALSE, keys |-> <<>>]
    ELSE KeysLoop(ord, 0, <<>>)

\* propagation.TraceContext.Inject(ctx, carrier)
PropagatorInject(h, ctx, carrier) ==
    IF ~IsValid(ctx) THEN h
    ELSE Set(h, carrier, TraceparentHeader, FormatTraceparent(ctx))

\* propagation.TraceContext.Extract(ctx, carrier)
PropagatorExtract(h, ctx, carrier) ==
    LET v == Get(h, carrier, TraceparentHeader)
        sc == ParseTraceparent(v)
    IN
    IF v = "" THEN ctx
    ELSE IF IsValid(sc) THEN [sc EXCEPT !.remote = TRUE] ELSE ctx

\* the annotations of the objects of h after a call, the copies the call made
\* being unreachable afterwards
Live(h, heap) == [r \in DOMAIN h |-> heap[r]]

\* an Extract that reads the object itself and allocates its map when nil
ExtractInPlace(h, ctx, o) ==
    IF o = NilObj \/ Accessor(o).err
    THEN [panic |-> FALSE, ctx |-> ctx, heap |-> h]
    ELSE LET heap == [h EXCEPT ![o.ref] = IF @.isNil THEN MakeAnn ELSE @]
         IN [panic |-> FALSE, ctx |-> PropagatorExtract(heap, ctx, NewObjectCarrier(o)),
             heap |-> heap]

\* tracing.Extract(ctx, obj)
Extract(h, ctx, o) ==
    LET c == DeepCopyObject(h, o) IN
    IF c.panic THEN [panic |-> TRUE, ctx |-> ctx, heap |-> h]
    ELSE [panic |-> FALSE,
          ctx |-> PropagatorExtract(c.heap, ctx, NewObjectCarrier(c.obj)),
          heap |-> Live(h, c.heap)]

\* an Inject that writes into a deep copy of the object
InjectIntoCopy(h, ctx, o) ==
    LET c == DeepCopyObject(h, o) IN
    IF c.panic THEN h
    ELSE Live(h, PropagatorInject(c.heap, ctx, NewObjectCarrier(c.obj)))

\* tracing.Inject(ctx, obj)
Inject(h, ctx, o) == PropagatorInject(h, ctx, NewObjectCarrier(o))

(***************************************************************************)
(* OnChange.                                                               *)
(***************************************************************************)
\* for i, x := range h.handlers { handlers[i] = x } into a slice of length n:
\* the write at index n faults when h.handlers is longer than n
CopyHandlers(n, hs) ==
    [panic |-> Len(hs) > n,
     copy |-> [i \in 1..n |-> IF i <= Len(hs) THEN hs[i] ELSE ZeroEntry]]

\* a classification that does not know the ignore sentinel
IsHandlerFailureAnyError(err) == err # NilErr

\* err != nil && !errors.Is(err, ErrIgnore)
IsHandlerFailure(err) == err # NilErr /\ ~ErrorsIs(err, ErrIgnore)

\* newObj != nil && !reflect.ValueOf(newObj).IsNil()
IsNonNil(o) == o # NilObj /\ o.kind # "nilptr"

\* a threading rule that adopts a replacement only when its UID was read
ThreadObjectStrict(cur, newObj) ==
    IF IsNonNil(newObj) /\ ~Accessor(newObj).err /\ Accessor(newObj).uid # ""
    THEN newObj
    ELSE cur

\* the object OnChange hands to the next handler
ThreadObject(cur, newObj) ==
    IF IsNonNil(newObj)
    THEN IF ~Accessor(newObj).err /\ Accessor(newObj).uid # ""
         THEN newObj
         ELSE IF Accessor(newObj).err THEN newObj ELSE cur
    ELSE cur

\* metrics.IncTotalHandlerExecutions(gvr, name, hasError)
IncTotalHandlerExecutions(gvr, name, hasError) ==
    [metric |-> "executions", gvr |-> gvr, name |-> name, failed |-> hasError]

\* a duration observation that is always filed under success
ReportReconcileTimeAsSuccess(gvr, name, hasError) ==
    [metric |-> "reconcileTime", gvr |-> gvr, name |-> name, failed |-> FALSE]

\* metrics.ReportReconcileTime(gvr, name, hasError, seconds)
ReportReconcileTime(gvr, name, hasError) ==
    [metric |-> "reconcileTime", gvr |-> gvr, name |-> name, failed |-> hasError]

\* _, handlerSpan := controllerTracer.Start(spanCtx, handler.name)
StartHandlerSpan(name, sc) ==
    [name |-> name, sc |-> sc, code |-> "Unset", desc |-> "", ended |-> 0]

\* a handler span that is ended without status
EndHandlerSpanNoStatus(sp, hasError, err) == [sp EXCEPT !.ended = @ + 1]

\* if hasError { handlerSpan.SetStatus(codes.Error, err.Error()) }; handlerSpan.End()
EndHandlerSpan(sp, hasError, err) ==
    IF hasError
    THEN [sp EXCEPT !.code = "Error", !.desc = err.msg, !.ended = @ + 1]
    ELSE [sp EXCEPT !.ended = @ + 1]

\* the span before controllerTracer.Start
NoSpan ==
    [started |-> FALSE, ended |-> 0, code |-> "Unset", desc |-> "",
     sc |-> NoSpanContext, link |-> NoSpanContext]

\* a setupSpan that never links
setupSpanNoLink(recording, ctx, c) ==
    [NoSpan EXCEPT !.started = TRUE,
                   !.sc = TracerStart(recording, ctx, c, TopSpanID(c))]

\* tracing.go setupSpan: the top-level span "sharedhandler.OnChange", with a
\* link to the span context of ctx when tracing.HasParent(ctx)
setupSpan(recording, ctx, c) ==
    [NoSpan EXCEPT !.started = TRUE,
                   !.sc = TracerStart(recording, ctx, c, TopSpanID(c)),
                   !.link = IF HasParent(ctx) THEN ctx ELSE NoSpanContext]

\* OnChange is entered: handlers := make([]handlerEntry, len(h.handlers)),
\* the length being read before the lock is taken
OnChangeMake(c, o) ==
    /\ pc[c] = "idle"
    /\ pc' = [pc EXCEPT ![c] = "rlock"]
    /\ obj' = [obj EXCEPT ![c] = o]
    /\ allocLen' = [allocLen EXCEPT ![c] = Len(handlers)]
    /\ atStart' = [atStart EXCEPT ![c] = idCounter]
    /\ UNCHANGED <<snapshot, idx, errs, ret, span, metrics, log, atLock, hspans>>
    /\ UNCHANGED <<lock>>
    /\ UNCHANGED regVars
    /\ UNCHANGED carrierVars
    /\ UNCHANGED envVars

\* h.lock.RLock()
OnChangeRLock(c) ==
    /\ pc[c] = "rlock"
    /\ pc' = [pc EXCEPT ![c] = "copy"]
    /\ lock' = lock \cup {c}
    /\ atLock' = [atLock EXCEPT ![c] = handlers]
    /\ UNCHANGED <<obj, allocLen, snapshot, idx, errs, ret, span, metrics, log, atStart, hspans>>
    /\ UNCHANGED regVars
    /\ UNCHANGED carrierVars
    /\ UNCHANGED envVars

\* the copy loop, then h.lock.RUnlock(); a fault in the loop leaves the read
\* lock held, RUnlock not being deferred
OnChangeCopy(c) ==
    /\ pc[c] = "copy"
    /\ LET r == CopyHandlers(allocLen[c], handlers) IN
        IF r.panic
        THEN /\ pc' = [pc EXCEPT ![c] = "panic"]
             /\ UNCHANGED <<snapshot, lock>>
        ELSE /\ pc' = [pc EXCEPT ![c] = "setup"]
             /\ snapshot' = [snapshot EXCEPT ![c] = r.copy]
             /\ lock' = lock \ {c}
    /\ UNCHANGED <<obj, allocLen, idx, errs, ret, span, metrics, log, atLock, atStart, hspans>>
    /\ UNCHANGED regVars
    /\ UNCHANGED carrierVars
    /\ UNCHANGED envVars

\* ctx := h.setupTracingCtx(...); spanCtx, span := h.setupSpan(ctx); defer span.End()
\* tracing.Extract calls obj.DeepCopyObject(), which faults on a nil interface
OnChangeSetup(c) ==
    /\ pc[c] = "setup"
    /\ LET r == Extract(annotations, NoSpanContext, obj[c]) IN
       IF r.panic
       THEN /\ pc' = [pc EXCEPT ![c] = "panic"]
            /\ UNCHANGED <<span, idx>>
       ELSE /\ pc' = [pc EXCEPT ![c] = "loop"]
            /\ span' = [span EXCEPT ![c] = setupSpan(sdk, r.ctx, c)]
            /\ idx' = [idx EXCEPT ![c] = 1]
    /\ UNCHANGED <<obj, allocLen, snapshot, errs, ret, metrics, log, atLock, atStart, hspans>>
    /\ UNCHANGED <<lock>>
    /\ UNCHANGED regVars
    /\ UNCHANGED carrierVars
    /\ UNCHANGED envVars

\* a loop that returns at the first handler failure
LoopDoneAtFirstError(c) == idx[c] > Len(snapshot[c]) \/ errs[c] # <<>>

\* for _, handler := range handlers: the loop is over when every position of
\* the snapshot was visited; nothing in the body leaves it earlier
LoopDone(c) == idx[c] > Len(snapshot[c])

\* the ids of the entries of a handlers slice
Ids(hs) == {hs[i].id : i \in 1..Len(hs)}

\* an injection of the context of the top-level span
InjectedContextOfTop(spanCtx, handlerSpanCtx) == spanCtx

\* the context handed to tracing.Inject: handlerSpanCtx
InjectedContext(spanCtx, handlerSpanCtx) == handlerSpanCtx

\* one iteration of the range loop up to the call handler.handler.OnChange(key, obj):
\* the handler's span is started and its context injected into the object;
\* the call faults when the entry's handler is the nil interface, and the
\* deferred span.End() runs
InvokeEntry(c, handler) ==
    LET handlerSpanCtx == TracerStart(sdk, span[c].sc, c, HandlerSpanID(c, idx[c]))
        heap == Inject(annotations, InjectedContext(span[c].sc, handlerSpanCtx), obj[c])
    IN
    /\ hspans' = [hspans EXCEPT ![c] = Append(@, StartHandlerSpan(handler.name, handlerSpanCtx))]
    /\ annotations' = heap
    /\ IF handler.handler = "nil"
       THEN /\ pc' = [pc EXCEPT ![c] = "panic"]
            /\ span' = [span EXCEPT ![c].ended = @ + 1]
            /\ UNCHANGED log
       ELSE /\ pc' = [pc EXCEPT ![c] = "running"]
            /\ log' = [log EXCEPT ![c] = Append(@,
                          [id |-> handler.id, name |-> handler.name, objIn |-> obj[c],
                           carried |-> Get(heap, NewObjectCarrier(obj[c]),
                                           TraceparentHeader),
                           returned |-> FALSE, err |-> NilErr, newObj |-> NilObj])]
            /\ UNCHANGED span
    /\ UNCHANGED <<obj, allocLen, snapshot, idx, errs, ret, metrics, atLock, atStart>>
    /\ UNCHANGED <<lock>>
    /\ UNCHANGED regVars
    /\ UNCHANGED <<cobj, last, injected>>
    /\ UNCHANGED envVars

\* a loop that reads the entries from h.handlers itself instead of the copy
OnChangeInvokeLive(c) ==
    /\ pc[c] = "loop"
    /\ ~LoopDone(c)
    /\ InvokeEntry(c, IF idx[c] <= Len(handlers) THEN handlers[idx[c]] ELSE ZeroEntry)

\* the range loop reads the entry from the local copy
OnChangeInvoke(c) ==
    /\ pc[c] = "loop"
    /\ ~LoopDone(c)
    /\ InvokeEntry(c, snapshot[c][idx[c]])

\* an errs list that every call in flight appends to
RecordErrorShared(es, c, name, hasError, err) ==
    [d \in DOMAIN es |-> IF hasError THEN Append(es[d], handlerError(name, err)) ELSE es[d]]

\* if hasError { errs = append(errs, &handlerError{...}) }, errs being a
\* variable of the call
RecordError(es, c, name, hasError, err) ==
    [es EXCEPT ![c] = IF hasError THEN Append(@, handlerError(name, err)) ELSE @]

\* the handler returns (newObj, err); the rest of the iteration
OnChangeHandlerReturn(c, err, newObj) ==
    /\ pc[c] = "running"
    /\ LET handler == snapshot[c][idx[c]]
           hasError == IsHandlerFailure(err)
       IN
        /\ errs' = RecordError(errs, c, handler.name, hasError, err)
        /\ metrics' = [metrics EXCEPT ![c] = @ \o
                          <<IncTotalHandlerExecutions(ControllerGVR, handler.name, hasError),
                            ReportReconcileTime(ControllerGVR, handler.name, hasError)>>]
        /\ hspans' = [hspans EXCEPT ![c][Len(hspans[c])] = EndHandlerSpan(@, hasError, err)]
        /\ obj' = [obj EXCEPT ![c] = ThreadObject(@, newObj)]
        /\ log' = [log EXCEPT ![c][Len(log[c])] =
                      [@ EXCEPT !.returned = TRUE, !.err = err, !.newObj = newObj]]
    /\ idx' = [idx EXCEPT ![c] = @ + 1]
    /\ pc' = [pc EXCEPT ![c] = "loop"]
    /\ UNCHANGED <<allocLen, snapshot, ret, span, atLock, atStart>>
    /\ UNCHANGED <<lock>>
    /\ UNCHANGED regVars
    /\ UNCHANGED carrierVars
    /\ UNCHANGED envVars

\* a return that reports success on the span whatever the error
EndTopSpanOk(sp, err) == [sp EXCEPT !.code = "Ok", !.desc = "", !.ended = @ + 1]

\* if err != nil { span.SetStatus(codes.Error, err.Error()) } else
\* { span.SetStatus(codes.Ok, "") }, then the deferred span.End()
EndTopSpan(sp, err) ==
    IF err # NilRet
    THEN [sp EXCEPT !.code = "Error", !.desc = RetError(err), !.ended = @ + 1]
    ELSE [sp EXCEPT !.code = "Ok", !.desc = "", !.ended = @ + 1]

\* after the loop: err := errs.ToErr(), the status of the span, the return
OnChangeReturn(c) ==
    /\ pc[c] = "loop"
    /\ LoopDone(c)
    /\ LET err == ToErr(errs[c]) IN
        /\ ret' = [ret EXCEPT ![c] = err]
        /\ span' = [span EXCEPT ![c] = EndTopSpan(@, err)]
    /\ pc' = [pc EXCEPT ![c] = "done"]
    /\ UNCHANGED <<obj, allocLen, snapshot, idx, errs, metrics, log, atLock, atStart, hspans>>
    /\ UNCHANGED <<lock>>
    /\ UNCHANGED regVars
    /\ UNCHANGED carrierVars
    /\ UNCHANGED envVars

(***************************************************************************)
(* The carrier operations as steps on one object.                          *)
(***************************************************************************)
\* no operation yet; pre is the annotations before the operation
NoOp ==
    [op |-> "none", key |-> "", value |-> "", ctx |-> NoSpanContext, out |-> "",
     keys |-> <<>>, outCtx |-> NoSpanContext, panic |-> FALSE,
     pre |-> [r \in Refs |-> NilAnn]]

\* NewObjectCarrier(cobj).Get(key)
CarrierGet(key) ==
    /\ last' = [NoOp EXCEPT !.op = "Get", !.key = key, !.pre = annotations,
                            !.out = Get(annotations, NewObjectCarrier(cobj), key)]
    /\ UNCHANGED <<cobj, annotations, injected>>
    /\ UNCHANGED <<regVars, lock, callVars>>
    /\ UNCHANGED envVars

\* NewObjectCarrier(cobj).Set(key, value)
CarrierSet(key, value) ==
    /\ annotations' = Set(annotations, NewObjectCarrier(cobj), key, value)
    /\ last' = [NoOp EXCEPT !.op = "Set", !.key = key, !.value = value, !.pre = annotations]
    /\ UNCHANGED <<cobj, injected>>
    /\ UNCHANGED <<regVars, lock, callVars>>
    /\ UNCHANGED envVars

\* NewObjectCarrier(cobj).Keys(), the range loop taking any order
CarrierKeys ==
    /\ \E ord \in RangeOrders(IF cobj.kind = "meta" THEN annotations[cobj.ref] ELSE NilAnn) :
          LET r == Keys(annotations, NewObjectCarrier(cobj), ord) IN
          last' = [NoOp EXCEPT !.op = "Keys", !.pre = annotations,
                               !.keys = r.keys, !.panic = r.panic]
    /\ UNCHANGED <<cobj, annotations, injected>>
    /\ UNCHANGED <<regVars, lock, callVars>>
    /\ UNCHANGED envVars

\* tracing.Inject(ctx, cobj), ctx carrying the span context sc
TracingInject(sc) ==
    /\ annotations' = Inject(annotations, sc, cobj)
    /\ last' = [NoOp EXCEPT !.op = "Inject", !.ctx = sc, !.pre = annotations]
    /\ injected' = IF ~IsValid(sc) THEN injected
                   ELSE IF injected = <<>> THEN <<sc>>
                   ELSE <<injected[Len(injected)], sc>>
    /\ UNCHANGED <<cobj>>
    /\ UNCHANGED <<regVars, lock, callVars>>
    /\ UNCHANGED envVars

\* tracing.Extract(context.Background(), cobj)
TracingExtract ==
    /\ LET r == Extract(annotations, NoSpanContext, cobj) IN
        /\ annotations' = r.heap
        /\ last' = [NoOp EXCEPT !.op = "Extract", !.pre = annotations,
                                !.outCtx = r.ctx, !.panic = r.panic]
    /\ UNCHANGED <<cobj, injected>>
    /\ UNCHANGED <<regVars, lock, callVars>>
    /\ UNCHANGED envVars

(***************************************************************************)
(* Carrier operations of concurrent goroutines on one object, step by      *)
(* step.                                                                   *)
(***************************************************************************)
\* the goroutines, the carriers, the maps: the one the object may start
\* with, and the one each goroutine may allocate
Procs == {"p1", "p2"}
Carriers == {"k1", "k2"}
OwnMap(p) == "m" \o p
MapIds == {"m0"} \cup {OwnMap(p) : p \in Procs}

\* a goroutine that has not begun its operation
IdleProc == [pc |-> "idle", op |-> "none", key |-> "", value |-> "", existingAnn |-> "nil",
             out |-> "", raced |-> FALSE]

\* no goroutine operates on the object
NoCarrierRace ==
    /\ annPtr = "nil"
    /\ maps = [m \in MapIds |-> {}]
    /\ held = [k \in Carriers |-> FALSE]
    /\ carrierOf = [p \in Procs |-> "k1"]
    /\ rp = [p \in Procs |-> IdleProc]
    /\ fatal = FALSE

\* goroutine q is in the middle of an access to map m
Reading(q, m) == rp[q].pc = "reading" /\ rp[q].existingAnn = m
Writing(q, m) == rp[q].pc = "writing" /\ rp[q].existingAnn = m

\* goroutine p calls Get(key) or Set(key, value) through its carrier
RaceCall(p, op, key, value) ==
    /\ ~fatal
    /\ rp[p].pc = "idle"
    /\ rp' = [rp EXCEPT ![p] = [IdleProc EXCEPT !.pc = "lock", !.op = op, !.key = key,
                                                !.value = value]]
    /\ UNCHANGED <<annPtr, maps, held, carrierOf, fatal>>
    /\ UNCHANGED <<regVars, lock, callVars, carrierVars, sdk, clientVars, watchVars>>

\* o.mu.Lock(), the mutex being the one of the carrier
RaceLock(p) ==
    /\ ~fatal
    /\ rp[p].pc = "lock"
    /\ ~held[carrierOf[p]]
    /\ held' = [held EXCEPT ![carrierOf[p]] = TRUE]
    /\ rp' = [rp EXCEPT ![p].pc = "load"]
    /\ UNCHANGED <<annPtr, maps, carrierOf, fatal>>
    /\ UNCHANGED <<regVars, lock, callVars, carrierVars, sdk, clientVars, watchVars>>

\* existingAnn := accessor.GetAnnotations(), and the test for nil: Get
\* returns "", Set makes a map
RaceLoad(p) ==
    /\ ~fatal
    /\ rp[p].pc = "load"
    /\ rp' = [rp EXCEPT ![p].existingAnn = annPtr,
                        ![p].pc = IF rp[p].op = "Get"
                                  THEN IF annPtr = "nil" THEN "unlock" ELSE "read"
                                  ELSE IF annPtr = "nil" THEN "make" ELSE "write"]
    /\ UNCHANGED <<annPtr, maps, held, carrierOf, fatal>>
    /\ UNCHANGED <<regVars, lock, callVars, carrierVars, sdk, clientVars, watchVars>>

\* existingAnn = make(map[string]string)
RaceMake(p) ==
    /\ ~fatal
    /\ rp[p].pc = "make"
    /\ maps' = [maps EXCEPT ![OwnMap(p)] = {}]
    /\ rp' = [rp EXCEPT ![p].existingAnn = OwnMap(p), ![p].pc = "write"]
    /\ UNCHANGED <<annPtr, held, carrierOf, fatal>>
    /\ UNCHANGED <<regVars, lock, callVars, carrierVars, sdk, clientVars, watchVars>>

\* the access existingAnn[key] = value or existingAnn[key] begins; a map
\* access that overlaps a write of another goroutine to the same map is a
\* data race, which the runtime may end with a fatal error
RaceAccessBegin(p, detected) ==
    /\ ~fatal
    /\ rp[p].pc \in {"read", "write"}
    /\ LET m == rp[p].existingAnn
           overlap == \E q \in Procs \ {p} :
                          Writing(q, m) \/ (rp[p].pc = "write" /\ Reading(q, m))
       IN
        /\ detected => overlap
        /\ fatal' = detected
        /\ rp' = [q \in Procs |->
                    IF q = p
                    THEN [rp[q] EXCEPT !.pc = IF rp[p].pc = "read" THEN "reading" ELSE "writing",
                                       !.raced = overlap]
                    ELSE IF overlap /\ (Writing(q, m) \/ Reading(q, m))
                         THEN [rp[q] EXCEPT !.raced = TRUE]
                         ELSE rp[q]]
    /\ UNCHANGED <<annPtr, maps, held, carrierOf>>
    /\ UNCHANGED <<regVars, lock, callVars, carrierVars, sdk, clientVars, watchVars>>

\* the write existingAnn[key] = value ends; after a data race the entry may
\* be missing
RaceWriteEnd(p, applied) ==
    /\ ~fatal
    /\ rp[p].pc = "writing"
    /\ ~applied => rp[p].raced
    /\ maps' = [maps EXCEPT ![rp[p].existingAnn] =
                    IF applied THEN MapAssign(Ann(@), rp[p].key, rp[p].value).m ELSE @]
    /\ rp' = [rp EXCEPT ![p].pc = "store"]
    /\ UNCHANGED <<annPtr, held, carrierOf, fatal>>
    /\ UNCHANGED <<regVars, lock, callVars, carrierVars, sdk, clientVars, watchVars>>

\* return existingAnn[key]
RaceReadEnd(p) ==
    /\ ~fatal
    /\ rp[p].pc = "reading"
    /\ rp' = [rp EXCEPT ![p].out = MapIndex(Ann(maps[rp[p].existingAnn]), rp[p].key),
                        ![p].pc = "unlock"]
    /\ UNCHANGED <<annPtr, maps, held, carrierOf, fatal>>
    /\ UNCHANGED <<regVars, lock, callVars, carrierVars, sdk, clientVars, watchVars>>

\* accessor.SetAnnotations(existingAnn)
RaceStore(p) ==
    /\ ~fatal
    /\ rp[p].pc = "store"
    /\ annPtr' = rp[p].existingAnn
    /\ rp' = [rp EXCEPT ![p].pc = "unlock"]
    /\ UNCHANGED <<maps, held, carrierOf, fatal>>
    /\ UNCHANGED <<regVars, lock, callVars, carrierVars, sdk, clientVars, watchVars>>

\* the deferred o.mu.Unlock()
RaceUnlock(p) ==
    /\ ~fatal
    /\ rp[p].pc = "unlock"
    /\ held' = [held EXCEPT ![carrierOf[p]] = FALSE]
    /\ rp' = [rp EXCEPT ![p].pc = "done"]
    /\ UNCHANGED <<annPtr, maps, carrierOf, fatal>>
    /\ UNCHANGED <<regVars, lock, callVars, carrierVars, sdk, clientVars, watchVars>>

(***************************************************************************)
(* The Client: every operation starts a span, runs the request under the   *)
(* client's timeout and reports on the span.                               *)
(***************************************************************************)
\* no operation was called yet
NoCall ==
    [op |-> "none", created |-> FALSE, cancelled |-> 0, err |-> NilErr,
     span |-> [started |-> FALSE, ended |-> 0, code |-> "Unset", desc |-> "",
               sc |-> NoSpanContext, parent |-> NoSpanContext],
     resultKind |-> "", pre |-> <<>>, flag |-> FALSE]

\* a Client that was never called, tracing.distributedTracingEnabled = false
NoClientCall ==
    /\ enabled = FALSE
    /\ clientCfg = [timeout |-> 0, kind |-> ""]
    /\ lastCall = NoCall

\* tracing.SetDistributedTracingEnabled(b)
SetDistributedTracingEnabled(b) ==
    /\ enabled' = b
    /\ UNCHANGED <<clientCfg, lastCall>>
    /\ UNCHANGED <<regVars, lock, callVars, carrierVars, sdk, raceVars, watchVars>>

\* Client.setupCtx: whether a timeout context is created; with timeout 0 the
\* context is returned as it is with a no-op cancel
setupCtx(timeout) == timeout # 0

\* defer cancel(): the calls of the CancelFunc of the timeout context
DeferCancel(created) == IF created THEN 1 ELSE 0

\* spanCtx, span := clientTracer.Start(ctx, name), ctx carrying parent
ClientStart(recording, parent) ==
    [started |-> TRUE, ended |-> 0, code |-> "Unset", desc |-> "",
     sc |-> TracerStart(recording, parent, ClientCaller, TopSpanID(ClientCaller)),
     parent |-> parent]

\* the deferred function of Get, Create, Update, DeleteCollection and Patch:
\* the status from err, then span.End()
DeferStatusAndEnd(sp, err, name) ==
    IF err # NilErr
    THEN [sp EXCEPT !.code = "Error", !.desc = err.msg, !.ended = @ + 1]
    ELSE [sp EXCEPT !.code = "Ok", !.desc = name, !.ended = @ + 1]

\* the deferred function of List and UpdateStatus: the status from err
DeferStatus(sp, err, name) ==
    IF err # NilErr
    THEN [sp EXCEPT !.code = "Error", !.desc = err.msg]
    ELSE [sp EXCEPT !.code = "Ok", !.desc = name]

\* Client.setKind(obj): the kind of obj afterwards, cur being its kind before
setKind(kind, o, cur) ==
    IF kind = "" THEN cur
    ELSE IF o.kind = "status" THEN cur
    ELSE IF TypeAccessor(o).err THEN cur
    ELSE kind

\* Do(spanCtx).Into(result): on success the response, whose annotations are
\* srv, is decoded into result
RestInto(h, result, restErr, srv) ==
    IF restErr = NilErr /\ result.kind = "meta" THEN [h EXCEPT ![result.ref] = srv] ELSE h

\* the error of meta.Accessor
AccessorErr == PlainErr("object does not implement the Object interfaces")

\* the record of a call
Called(op, sp, err, result, pre) ==
    [op |-> op, created |-> setupCtx(clientCfg.timeout),
     cancelled |-> DeferCancel(setupCtx(clientCfg.timeout)), err |-> err, span |-> sp,
     resultKind |-> setKind(clientCfg.kind, result, ""), pre |-> pre, flag |-> enabled]

\* Client.Get(ctx, namespace, name, result, options)
ClientGet(result, restErr, srv) ==
    /\ LET span0 == ClientStart(sdk, NoSpanContext)
           heap == RestInto(annotations, result, restErr, srv)
       IN
        /\ annotations' = IF enabled THEN Inject(heap, span0.sc, result) ELSE heap
        /\ lastCall' = Called("Get", DeferStatusAndEnd(span0, restErr, "Get"), restErr, result,
                              heap)
    /\ UNCHANGED <<enabled, clientCfg>>
    /\ UNCHANGED <<cobj, last, injected>>
    /\ UNCHANGED <<regVars, lock, callVars, sdk, raceVars, watchVars>>

\* Client.List(ctx, namespace, result, opts)
ClientList(result, restErr, srv) ==
    /\ LET span0 == ClientStart(sdk, NoSpanContext)
           heap == RestInto(annotations, result, restErr, srv)
       IN
        /\ annotations' = heap
        /\ lastCall' = [Called("List", DeferStatus(span0, restErr, "List"), restErr, result, heap)
                           EXCEPT !.resultKind = ""]
    /\ UNCHANGED <<enabled, clientCfg>>
    /\ UNCHANGED <<cobj, last, injected>>
    /\ UNCHANGED <<regVars, lock, callVars, sdk, raceVars, watchVars>>

\* Client.Create(ctx, namespace, obj, result, opts)
ClientCreate(o, result, restErr, srv) ==
    /\ LET span0 == ClientStart(sdk, NoSpanContext)
           injectedHeap == IF enabled THEN Inject(annotations, span0.sc, o) ELSE annotations
       IN
        /\ annotations' = RestInto(injectedHeap, result, restErr, srv)
        /\ lastCall' = Called("Create", DeferStatusAndEnd(span0, restErr, "Create"), restErr,
                              result, RestInto(annotations, result, restErr, srv))
    /\ UNCHANGED <<enabled, clientCfg>>
    /\ UNCHANGED <<cobj, last, injected>>
    /\ UNCHANGED <<regVars, lock, callVars, sdk, raceVars, watchVars>>

\* Client.Update(ctx, namespace, obj, result, opts)
ClientUpdate(o, result, restErr, srv) ==
    /\ LET ex == Extract(annotations, NoSpanContext, o)
           span0 == ClientStart(sdk, IF enabled THEN ex.ctx ELSE NoSpanContext)
           err == IF Accessor(o).err THEN AccessorErr ELSE restErr
           heap == IF Accessor(o).err THEN annotations
                   ELSE RestInto(annotations, result, restErr, srv)
       IN
        /\ annotations' = heap
        /\ lastCall' = Called("Update", DeferStatusAndEnd(span0, err, "Update"), err, result, heap)
    /\ UNCHANGED <<enabled, clientCfg>>
    /\ UNCHANGED <<cobj, last, injected>>
    /\ UNCHANGED <<regVars, lock, callVars, sdk, raceVars, watchVars>>

\* Client.UpdateStatus(ctx, namespace, obj, result, opts)
ClientUpdateStatus(o, result, restErr, srv) ==
    /\ LET ex == Extract(annotations, NoSpanContext, o)
           span0 == ClientStart(sdk, IF enabled THEN ex.ctx ELSE NoSpanContext)
           err == IF Accessor(o).err THEN AccessorErr ELSE restErr
           heap == IF Accessor(o).err THEN annotations
                   ELSE RestInto(annotations, result, restErr, srv)
       IN
        /\ annotations' = heap
        /\ lastCall' = Called("UpdateStatus", DeferStatus(span0, err, "UpdateStatus"), err,
                              result, heap)
    /\ UNCHANGED <<enabled, clientCfg>>
    /\ UNCHANGED <<cobj, last, injected>>
    /\ UNCHANGED <<regVars, lock, callVars, sdk, raceVars, watchVars>>

\* Client.Delete(ctx, namespace, name, opts): the span is started and left
ClientDelete(restErr) ==
    /\ lastCall' = [Called("Delete", ClientStart(sdk, NoSpanContext), restErr, NilObj,
                           annotations) EXCEPT !.resultKind = ""]
    /\ UNCHANGED <<enabled, clientCfg>>
    /\ UNCHANGED carrierVars
    /\ UNCHANGED <<regVars, lock, callVars, sdk, raceVars, watchVars>>

\* Client.DeleteCollection(ctx, namespace, opts, listOpts)
ClientDeleteCollection(restErr) ==
    /\ lastCall' = [Called("DeleteCollection",
                           DeferStatusAndEnd(ClientStart(sdk, NoSpanContext), restErr,
                                             "DeleteCollection"),
                           restErr, NilObj, annotations) EXCEPT !.resultKind = ""]
    /\ UNCHANGED <<enabled, clientCfg>>
    /\ UNCHANGED carrierVars
    /\ UNCHANGED <<regVars, lock, callVars, sdk, raceVars, watchVars>>

\* Client.Patch(ctx, namespace, name, pt, data, result, opts, subresources...)
ClientPatch(result, restErr, srv) ==
    /\ LET span0 == ClientStart(sdk, NoSpanContext)
           heap == RestInto(annotations, result, restErr, srv)
       IN
        /\ annotations' = heap
        /\ lastCall' = Called("Patch", DeferStatusAndEnd(span0, restErr, "Patch"), restErr,
                              result, heap)
    /\ UNCHANGED <<enabled, clientCfg>>
    /\ UNCHANGED <<cobj, last, injected>>
    /\ UNCHANGED <<regVars, lock, callVars, sdk, raceVars, watchVars>>

(***************************************************************************)
(* Client.Watch and the wrapper of injectKind: a goroutine that receives   *)
(* from the underlying watch, stamps the kind and sends on an unbuffered   *)
(* channel.                                                                *)
(***************************************************************************)
\* Watch was not called
NoForwarder == [pc |-> "idle", event |-> <<>>, taken |-> <<>>]

NoWatch ==
    /\ undEvents = <<>>
    /\ undClosed = FALSE
    /\ fwd = NoForwarder
    /\ delivered = <<>>
    /\ chanClosed = FALSE
    /\ consumer = "none"

\* Client.Watch: the request, whose error is err, handed to injectKind; with
\* an error or without kind the underlying watch is returned as it is,
\* otherwise the goroutine is started and the wrapper returned
WatchCall(err) ==
    /\ fwd.pc = "idle"
    /\ fwd' = [fwd EXCEPT !.pc = IF err # NilErr THEN "failed"
                                 ELSE IF clientCfg.kind = "" THEN "unwrapped"
                                 ELSE "recv"]
    /\ consumer' = IF err # NilErr THEN "none" ELSE "reading"
    /\ UNCHANGED <<undEvents, undClosed, delivered, chanClosed>>
    /\ UNCHANGED <<regVars, lock, callVars, carrierVars, sdk, raceVars, clientVars>>

\* for event := range w.ResultChan(): an event is received, and
\* c.setKind(event.Object) stamps it
ForwardReceive ==
    /\ fwd.pc = "recv"
    /\ undEvents # <<>>
    /\ LET event == Head(undEvents) IN
       fwd' = [pc |-> "send",
               event |-> <<[event EXCEPT !.kind = setKind(clientCfg.kind, event.obj, @)]>>,
               taken |-> Append(fwd.taken, event)]
    /\ undEvents' = Tail(undEvents)
    /\ UNCHANGED <<undClosed, delivered, chanClosed, consumer>>
    /\ UNCHANGED <<regVars, lock, callVars, carrierVars, sdk, raceVars, clientVars>>

\* eventChan <- event: the channel has no buffer, the send completes when
\* the consumer receives
ForwardSend ==
    /\ fwd.pc = "send"
    /\ consumer \in {"reading", "draining"}
    /\ delivered' = Append(delivered, fwd.event[1])
    /\ fwd' = [fwd EXCEPT !.pc = "recv", !.event = <<>>]
    /\ UNCHANGED <<undEvents, undClosed, chanClosed, consumer>>
    /\ UNCHANGED <<regVars, lock, callVars, carrierVars, sdk, raceVars, clientVars>>

\* the range loop ends when the underlying channel is closed and empty; the
\* deferred close(eventChan) runs and the goroutine exits
ForwardExit ==
    /\ fwd.pc = "recv"
    /\ undEvents = <<>>
    /\ undClosed
    /\ fwd' = [fwd EXCEPT !.pc = "exited"]
    /\ chanClosed' = TRUE
    /\ UNCHANGED <<undEvents, undClosed, delivered, consumer>>
    /\ UNCHANGED <<regVars, lock, callVars, carrierVars, sdk, raceVars, clientVars>>

\* the consumer receives from the underlying watch itself, Watch having
\* returned it unwrapped
DirectReceive ==
    /\ fwd.pc = "unwrapped"
    /\ consumer \in {"reading", "draining"}
    /\ undEvents # <<>>
    /\ delivered' = Append(delivered, Head(undEvents))
    /\ undEvents' = Tail(undEvents)
    /\ UNCHANGED <<undClosed, fwd, chanClosed, consumer>>
    /\ UNCHANGED <<regVars, lock, callVars, carrierVars, sdk, raceVars, clientVars>>

\* the server ends the watch: the underlying channel is closed after the
\* events still to be sent
UnderlyingClose ==
    /\ fwd.pc \notin {"idle", "failed"}
    /\ ~undClosed
    /\ undClosed' = TRUE
    /\ UNCHANGED <<undEvents, fwd, delivered, chanClosed, consumer>>
    /\ UNCHANGED <<regVars, lock, callVars, carrierVars, sdk, raceVars, clientVars>>

\* the consumer calls Stop(), which is the Stop of the underlying watch: it
\* sends n more of its events and closes its channel; the consumer goes on
\* receiving or not
ConsumerStop(n, goesOn) ==
    /\ consumer = "reading"
    /\ n <= Len(undEvents)
    /\ consumer' = IF goesOn THEN "draining" ELSE "gone"
    /\ undEvents' = SubSeq(undEvents, 1, n)
    /\ undClosed' = TRUE
    /\ UNCHANGED <<fwd, delivered, chanClosed>>
    /\ UNCHANGED <<regVars, lock, callVars, carrierVars, sdk, raceVars, clientVars>>

(***************************************************************************)
(* Specifications.                                                         *)
(***************************************************************************)
\* the object of a change notification
InObj == MetaObj("o1", "u1")

\* the objects OnChange is called with in SpecPass: an object with metadata,
\* and nil, the notification for a key without object
PassObjects == {InObj, NilObj}

\* what a handler returns in SpecPass: its error and its replacement object
PassOutcomes ==
    {<<NilErr, NilObj>>,
     <<ErrIgnore, NilObj>>,
     <<WrapErr("skip", ErrIgnore), NilObj>>,
     <<PlainErr("a"), NilObj>>,
     <<PlainErr("b"), NilObj>>,
     <<NilErr, MetaObj("r1", "u2")>>,
     <<PlainErr("a"), MetaObj("r2", "")>>,
     <<PlainErr(""), OpaqueObj("r3")>>,
     <<PlainErr("ignore handler error"), NilPtrObj("r4")>>}

\* the SharedHandler after construction, no OnChange call entered
InitDispatch ==
    /\ idCounter = 0
    /\ handlers = <<>>
    /\ lock = {}
    /\ ctxDone = {}
    /\ cancels = [s \in Scopes |-> 0]
    /\ watcher = <<>>
    /\ pc = [c \in Calls |-> "idle"]
    /\ obj = [c \in Calls |-> NilObj]
    /\ allocLen = [c \in Calls |-> 0]
    /\ snapshot = [c \in Calls |-> <<>>]
    /\ hspans = [c \in Calls |-> <<>>]
    /\ idx = [c \in Calls |-> 0]
    /\ errs = [c \in Calls |-> <<>>]
    /\ ret = [c \in Calls |-> NilRet]
    /\ span = [c \in Calls |-> NoSpan]
    /\ metrics = [c \in Calls |-> <<>>]
    /\ log = [c \in Calls |-> <<>>]
    /\ atLock = [c \in Calls |-> <<>>]
    /\ atStart = [c \in Calls |-> 0]

\* the object of the notifications carries no annotations; no carrier in use
Init ==
    /\ InitDispatch
    /\ cobj = NilObj
    /\ annotations = [r \in DispatchRefs |-> NilAnn]
    /\ last = NoOp
    /\ injected = <<>>
    /\ sdk = FALSE
    /\ NoCarrierRace
    /\ NoClientCall
    /\ NoWatch

\* two concurrent OnChange calls against registrations and cancellations
Next ==
    \/ \E s \in Scopes : Register(s, "h1", MaxFlightRegs)
    \/ \E s \in Scopes : s \notin ctxDone /\ Cancel(s)
    \/ \E id \in 1..MaxFlightRegs : WatcherRemove(id)
    \/ \E c \in Calls : OnChangeMake(c, InObj)
    \/ \E c \in Calls : OnChangeRLock(c)
    \/ \E c \in Calls : OnChangeCopy(c)
    \/ \E c \in Calls : OnChangeSetup(c)
    \/ \E c \in Calls : OnChangeInvoke(c)
    \/ \E c \in Calls : OnChangeHandlerReturn(c, NilErr, NilObj)
    \/ \E c \in Calls : OnChangeReturn(c)

Spec == Init /\ [][Next]_vars

\* the registry under registrations and cancellations in any scope, observed
\* by one OnChange call
NextRegistry ==
    \/ \E s \in Scopes : Register(s, "h1", MaxRegs)
    \/ \E s \in Scopes : Cancel(s)
    \/ \E id \in 1..MaxRegs : WatcherRemove(id)
    \/ OnChangeMake("c1", InObj)
    \/ OnChangeRLock("c1")
    \/ OnChangeCopy("c1")
    \/ OnChangeSetup("c1")
    \/ OnChangeInvoke("c1")
    \/ OnChangeHandlerReturn("c1", NilErr, NilObj)
    \/ OnChangeReturn("c1")

SpecRegistry == Init /\ [][NextRegistry]_vars

\* the SharedHandler after construction, with and without a tracer provider
InitPass ==
    /\ InitDispatch
    /\ cobj = NilObj
    /\ annotations = [r \in DispatchRefs |-> NilAnn]
    /\ last = NoOp
    /\ injected = <<>>
    /\ sdk \in BOOLEAN
    /\ NoCarrierRace
    /\ NoClientCall
    /\ NoWatch

\* one OnChange pass, concurrent with registrations, over handlers that return
\* every kind of error and of replacement object
NextPass ==
    \/ \E name \in Names : Register("s1", name, MaxPassRegs)
    \/ \E o \in PassObjects : OnChangeMake("c1", o)
    \/ OnChangeRLock("c1")
    \/ OnChangeCopy("c1")
    \/ OnChangeSetup("c1")
    \/ OnChangeInvoke("c1")
    \/ \E out \in PassOutcomes : OnChangeHandlerReturn("c1", out[1], out[2])
    \/ OnChangeReturn("c1")

SpecPass == InitPass /\ [][NextPass]_vars

\* the objects handed to the carrier: nil, an object meta.Accessor rejects,
\* an object with metadata
CarrierObjects == {NilObj, OpaqueObj("o1"), MetaObj("o1", "u1")}

\* the annotation maps the object with metadata starts with
InitialAnns ==
    {NilAnn, MakeAnn, Ann({<<"a", "1">>}), Ann({<<"a", "1">>, <<TraceparentHeader, "junk">>})}

\* the keys read, the keys and values written, the span contexts injected
GetKeys == {"a", "b", TraceparentHeader}
SetKeys == {"a", "b"}
SetValues == {"1", "2"}
InjectContexts == {SpanContext(t, s) : t \in TraceIDs, s \in SpanIDs} \cup {NoSpanContext}

InitCarrier ==
    /\ InitDispatch
    /\ cobj \in CarrierObjects
    /\ annotations \in [Refs -> InitialAnns]
    /\ cobj.kind # "meta" => annotations = [r \in Refs |-> NilAnn]
    /\ last = NoOp
    /\ injected = <<>>
    /\ sdk \in BOOLEAN
    /\ NoCarrierRace
    /\ NoClientCall
    /\ NoWatch

\* carrier operations on one object, and an OnChange call for that object on
\* a SharedHandler without registrations
NextCarrier ==
    \/ \E key \in GetKeys : CarrierGet(key)
    \/ \E key \in SetKeys, value \in SetValues : CarrierSet(key, value)
    \/ CarrierKeys
    \/ \E sc \in InjectContexts : TracingInject(sc)
    \/ TracingExtract
    \/ OnChangeMake("c1", cobj)
    \/ OnChangeRLock("c1")
    \/ OnChangeCopy("c1")
    \/ OnChangeSetup("c1")
    \/ OnChangeReturn("c1")

SpecCarrier == InitCarrier /\ [][NextCarrier]_vars

(***************************************************************************)
(* Properties of the dispatch engine.                                      *)
(***************************************************************************)
\* the call holds a complete local copy: it is past the copy loop
HasSnapshot(c) ==
    \/ pc[c] \in {"setup", "loop", "running", "done"}
    \/ pc[c] = "panic" /\ c \notin lock

\* the call faulted inside the copy loop, where it holds the read lock
CopyFaulted(c) == pc[c] = "panic" /\ c \in lock

\* the ids of the invocations a call made, in order
Invoked(c) == [k \in 1..Len(log[c]) |-> log[c][k].id]

\* C1: the handler sequence an OnChange call iterates is exactly the registry's
\* entry sequence at the instant the read lock was acquired (nothing added,
\* nothing omitted, no zero-valued entry), and taking the snapshot never
\* faults with an out-of-range write into the copy.
C1_SnapshotIsRegistryAtLock ==
    \A c \in Calls :
        /\ ~CopyFaulted(c)
        /\ HasSnapshot(c) => snapshot[c] = atLock[c]

\* the error is, or wraps, the ignore sentinel
IsIgnored(e) == e = ErrIgnore \/ (e.kind = "wrap" /\ e.unwrap[1] = ErrIgnore)

\* the handler returned a failure: a non-nil error other than the ignore sentinel
ReturnedFailure(r) == r.returned /\ r.err # NilErr /\ ~IsIgnored(r.err)

\* the invocations of a call that returned a failure, in invocation order
Failures(c) == SelectSeq(log[c], ReturnedFailure)

\* C2: in one OnChange call every handler of the snapshot is invoked exactly
\* once, in snapshot order, whatever errors the earlier handlers returned: the
\* invocations made so far are the first entries of the snapshot, one each, and
\* when the call returns they are all of them.
C2_EveryHandlerInvokedOnce ==
    \A c \in Calls :
        /\ Len(log[c]) <= Len(snapshot[c])
        /\ \A k \in 1..Len(log[c]) : log[c][k].id = snapshot[c][k].id
        /\ pc[c] = "loop" => Len(log[c]) = idx[c] - 1
        /\ pc[c] = "done" =>
              /\ Len(log[c]) = Len(snapshot[c])
              /\ \A k \in 1..Len(log[c]) : log[c][k].returned

\* a pass of three handlers, the first failing and the second ignored, that ran
\* to its end
C2_Witness ==
    /\ pc["c1"] = "done"
    /\ Len(log["c1"]) = 3
    /\ log["c1"][1].err = PlainErr("a")
    /\ log["c1"][2].err = ErrIgnore

\* C4: the error OnChange returns reflects the number n of handlers of the pass
\* that failed: nil for n = 0, that handler's handlerError (its name and cause)
\* for n = 1, an errorList of exactly n entries for n >= 2.
C4_ReturnShape ==
    \A c \in Calls :
        pc[c] = "done" =>
            LET f == Failures(c) IN
            /\ Len(f) = 0 => ret[c] = [type |-> "nil", list |-> <<>>]
            /\ Len(f) = 1 =>
                  /\ ret[c].type = "handlerError"
                  /\ ret[c].list = <<[HandlerName |-> f[1].name, Err |-> f[1].err]>>
            /\ Len(f) >= 2 =>
                  /\ ret[c].type = "errorList"
                  /\ Len(ret[c].list) = Len(f)

\* a pass that returned a single handler error although another handler
\* returned the ignore sentinel
C4_Witness ==
    /\ pc["c1"] = "done"
    /\ Len(Failures("c1")) = 1
    /\ \E k \in 1..Len(log["c1"]) : log["c1"][k].err = ErrIgnore
    /\ ret["c1"].type = "handlerError"

\* the text the claim gives for a sequence of failures
RECURSIVE JoinFailures(_)
JoinFailures(f) ==
    IF Len(f) = 0 THEN ""
    ELSE IF Len(f) = 1 THEN "handler " \o f[1].name \o ": " \o f[1].err.msg
    ELSE "handler " \o f[1].name \o ": " \o f[1].err.msg \o ", " \o JoinFailures(Tail(f))

\* C5: the error returned for failing handlers holds one entry {handlerName,
\* cause} per failure, in invocation order; its text is the entries rendered as
\* "handler <name>: <message>" joined by ", ", and the primary cause of the
\* composite is the first failure.
C5_CompositeError ==
    \A c \in Calls :
        (pc[c] = "done" /\ Len(Failures(c)) >= 1) =>
            LET f == Failures(c) IN
            /\ Len(ret[c].list) = Len(f)
            /\ \A k \in 1..Len(f) :
                  ret[c].list[k] = [HandlerName |-> f[k].name, Err |-> f[k].err]
            /\ RetError(ret[c]) = JoinFailures(f)
            /\ span[c].desc = JoinFailures(f)
            /\ Len(f) >= 2 =>
                  ErrorListCause(ret[c].list) =
                      [type |-> "handlerError",
                       list |-> <<[HandlerName |-> f[1].name, Err |-> f[1].err]>>]

\* h1 failing with "a" and h2 failing with "b" give "handler h1: a, handler h2: b"
C5_Witness ==
    /\ pc["c1"] = "done"
    /\ ret["c1"].type = "errorList"
    /\ span["c1"].desc = "handler h1: a, handler h2: b"

\* C6: a handler whose error is or wraps ErrIgnore contributes no entry to the
\* returned error, and for it exactly one execution-counter increment and one
\* duration observation are reported, both with failed = FALSE.
C6_IgnoreSemantics ==
    \A c \in Calls :
        /\ \A k \in 1..Len(errs[c]) : ~IsIgnored(errs[c][k].Err)
        /\ pc[c] = "done" => \A k \in 1..Len(ret[c].list) : ~IsIgnored(ret[c].list[k].Err)
        /\ Len(metrics[c]) = 2 * Cardinality({k \in 1..Len(log[c]) : log[c][k].returned})
        /\ \A k \in 1..Len(log[c]) :
              (log[c][k].returned /\ IsIgnored(log[c][k].err)) =>
                  /\ metrics[c][2 * k - 1] =
                        [metric |-> "executions", gvr |-> ControllerGVR,
                         name |-> log[c][k].name, failed |-> FALSE]
                  /\ metrics[c][2 * k] =
                        [metric |-> "reconcileTime", gvr |-> ControllerGVR,
                         name |-> log[c][k].name, failed |-> FALSE]

\* a pass whose only non-nil errors are the sentinel and an error wrapping it
\* returned nil
C6_Witness ==
    /\ pc["c1"] = "done"
    /\ Len(log["c1"]) = 2
    /\ log["c1"][1].err = ErrIgnore
    /\ log["c1"][2].err = WrapErr("skip", ErrIgnore)
    /\ ret["c1"].type = "nil"
    /\ Len(metrics["c1"]) = 4

\* the replacement is adopted: it is neither nil nor a typed nil pointer, and
\* its identity is read and non-empty or cannot be read
Adopted(o) ==
    /\ o.kind \notin {"nil", "nilptr"}
    /\ \/ o.kind = "meta" /\ o.uid # ""
       \/ o.kind # "meta"

\* the object the claim hands on after an invocation
Threaded(r) == IF Adopted(r.newObj) THEN r.newObj ELSE r.objIn

\* C7: after handler k returned (replacement, err), handler k+1 receives the
\* replacement iff it is non-none and its identity is read and non-empty or
\* cannot be read, and otherwise the object handler k received, whether or not
\* handler k returned an error.
C7_ObjectThreading ==
    \A c \in Calls :
        /\ \A k \in 1..(Len(log[c]) - 1) : log[c][k + 1].objIn = Threaded(log[c][k])
        /\ \A k \in 1..Len(log[c]) :
              (k = Len(log[c]) /\ log[c][k].returned) => obj[c] = Threaded(log[c][k])
        /\ Len(log[c]) >= 1 => log[c][1].objIn = InObj

\* a failing handler's unreadable replacement reached the second handler, whose
\* empty-UID replacement did not reach the third
C7_Witness ==
    /\ Len(log["c1"]) = 3
    /\ log["c1"][1].err = PlainErr("")
    /\ log["c1"][1].newObj = OpaqueObj("r3")
    /\ log["c1"][2].objIn = OpaqueObj("r3")
    /\ log["c1"][2].newObj = MetaObj("r2", "")
    /\ log["c1"][3].objIn = OpaqueObj("r3")

\* C3: dispatch order equals registration order: the registry holds its entries
\* in the order of their registration (increasing id) after any registrations
\* and removals, and every OnChange call invokes handlers in that order.
C3_DispatchOrder ==
    /\ \A i, j \in 1..Len(handlers) : i < j => handlers[i].id < handlers[j].id
    /\ \A c \in Calls :
          \A i, j \in 1..Len(log[c]) : i < j => log[c][i].id < log[c][j].id

\* three registrations, the second removed, and a call that then invoked the
\* first and the third in that order
C3_Witness ==
    /\ pc["c1"] = "done"
    /\ Invoked("c1") = <<1, 3>>
    /\ watcher[2].pc = "exited"
    /\ atStart["c1"] = 3

\* C8: a handler registered after an OnChange call took its snapshot is not
\* invoked by that call, and a handler registered before an OnChange call
\* started, its scope not cancelled, is invoked by that call.
C8_SnapshotIsolation ==
    \A c \in Calls :
        /\ \A k \in 1..Len(log[c]) : log[c][k].id \in Ids(atLock[c])
        /\ pc[c] \in {"done", "panic"} =>
              \A id \in DOMAIN watcher :
                  (id <= atStart[c] /\ watcher[id].ctx \notin ctxDone) =>
                      \E k \in 1..Len(log[c]) : log[c][k].id = id /\ log[c][k].returned

\* C9: cancelling a scope once or repeatedly removes the entry of each of its
\* registrations exactly once and no other entry: the registry holds exactly
\* the registrations whose watcher has not run, each once, and a watcher that
\* has run removed one entry.
C9_RemovedExactlyOnce ==
    /\ Ids(handlers) = {id \in DOMAIN watcher : watcher[id].pc = "waiting"}
    /\ Len(handlers) = Cardinality(Ids(handlers))
    /\ \A id \in DOMAIN watcher :
          /\ watcher[id].pc = "exited" => watcher[id].removed = 1
          /\ watcher[id].pc = "waiting" => watcher[id].removed = 0
          /\ watcher[id].pc = "exited" => watcher[id].ctx \in ctxDone

\* the scope of the second of three registrations was cancelled twice: its
\* entry is gone and the two others are there
C9_Witness ==
    /\ idCounter = 3
    /\ watcher[2].ctx = "s1"
    /\ cancels["s1"] = 2
    /\ cancels["s2"] = 0
    /\ watcher[2].pc = "exited"
    /\ Invoked("c1") = <<>>
    /\ Ids(handlers) = {1, 3}

\* C10: a scope cancellation never cuts a dispatch short: the copy a call holds
\* keeps the entries it took whatever is removed from the registry afterwards,
\* and every handler of the copy is invoked and returns, also when its entry
\* was removed from the registry before the call reached it.
C10_RemovalKeepsDispatch ==
    \A c \in Calls :
        HasSnapshot(c) =>
            /\ \A k \in 1..Len(snapshot[c]) :
                  k <= Len(atLock[c]) => snapshot[c][k] = atLock[c][k]
            /\ pc[c] \in {"done", "panic"} =>
                  \A k \in 1..Len(snapshot[c]) :
                      snapshot[c][k].handler = "func" =>
                          /\ k <= Len(log[c])
                          /\ log[c][k].id = snapshot[c][k].id
                          /\ log[c][k].returned

\* the second handler of a call's copy is executing although its entry has
\* left the registry since the copy was taken
C10_Witness ==
    /\ pc["c1"] = "running"
    /\ Len(snapshot["c1"]) = 2
    /\ Len(log["c1"]) = 2
    /\ log["c1"][2].id \notin Ids(handlers)
    /\ watcher[log["c1"][2].id].pc = "exited"


(***************************************************************************)
(* C11: the registry lock and the handlers.                                *)
(***************************************************************************)
\* the calls that hold the read lock and will give it back: they are in the
\* copy loop, whose RUnlock (line 74) follows it
Releasing(c) == c \in lock /\ pc[c] = "copy"

\* C11: OnChange holds no registry lock while a handler executes: from the
\* set-up of the spans to its return the call is not a holder of the lock,
\* and while a handler runs the lock is free or held only by calls that are
\* about to release it, so that a Register, a removal or another OnChange
\* started from inside the handler or next to it is not blocked for as long
\* as the handler runs, and the call ends when its handlers do
C11_NoLockWhileHandlerRuns ==
    \A c \in Calls :
        /\ pc[c] \in {"setup", "loop", "running", "done"} => c \notin lock
        /\ pc[c] = "running" => \A d \in lock : Releasing(d)


(***************************************************************************)
(* C12: the ids of the registrations.                                      *)
(***************************************************************************)
\* the registry without the entries of one id
WithoutId(hs, id) == SelectSeq(hs, LAMBDA e : e.id # id)

\* a step that registers: one entry more, at the end, with an id that is
\* above the counter's old value, above every id in the registry and was
\* given to no earlier registration
RegistersFreshId ==
    /\ idCounter' > idCounter
    /\ Len(handlers') = Len(handlers) + 1
    /\ SubSeq(handlers', 1, Len(handlers)) = handlers
    /\ handlers'[Len(handlers')].id = idCounter'
    /\ handlers'[Len(handlers')].id \notin DOMAIN watcher
    /\ \A i \in 1..Len(handlers) : handlers[i].id < handlers'[Len(handlers')].id

\* a step that removes: the watcher of one registration ends and the
\* registry loses the entry of that registration and nothing else
RemovesOwnEntry ==
    \E id \in DOMAIN watcher :
        /\ watcher[id].pc = "waiting"
        /\ watcher'[id].pc = "exited"
        /\ id \in Ids(handlers)
        /\ handlers' = WithoutId(handlers, id)
        /\ Len(handlers') = Len(handlers) - 1

\* C12: ids are strictly increasing in registration order and never reused:
\* the registry lists its entries by increasing id, so no two entries share
\* an id, every id lies between 1 and the counter, every registration so far
\* has an id of its own, the counter never goes back, a registration takes a
\* fresh larger id, and a removal deletes the entry of its own registration
\* and no other.
C12_IdsIncreaseNeverReused ==
    /\ [](/\ \A i, j \in 1..Len(handlers) : i < j => handlers[i].id < handlers[j].id
          /\ \A i \in 1..Len(handlers) : handlers[i].id \in 1..idCounter
          /\ DOMAIN watcher = 1..idCounter)
    /\ [][/\ idCounter' >= idCounter
          /\ Len(handlers') > Len(handlers) => RegistersFreshId
          /\ Len(handlers') < Len(handlers) => RemovesOwnEntry
          /\ idCounter' # idCounter => Len(handlers') > Len(handlers)]_vars

\* the third registration got id 3 although the entries of the first two had
\* left the registry before it
C12_Witness ==
    /\ idCounter = 3
    /\ Len(handlers) = 1
    /\ handlers[1].id = 3
    /\ watcher[1].pc = "exited"
    /\ watcher[2].pc = "exited"
    /\ watcher[3].pc = "waiting"
    /\ watcher[1].removed = 1 /\ watcher[2].removed = 1


(***************************************************************************)
(* C13: the metrics of an invocation.                                      *)
(***************************************************************************)
\* the metric events reported for the k-th invocation of a call
MetricsOf(c, k) == SubSeq(metrics[c], 2 * k - 1, 2 * k)

\* C13: for every handler invocation that returned, exactly one execution
\* counter increment and one duration observation are reported, in this
\* order, both keyed by the resource type of the SharedHandler, the name of
\* the invoked handler and the same failed flag, which is TRUE exactly when
\* the handler returned a non-nil error that is not an ignore error; nothing
\* is reported for a handler that has not returned, and nothing else is
\* reported.
C13_MetricsPerInvocation ==
    \A c \in Calls :
        /\ Len(metrics[c]) = 2 * Len(SelectSeq(log[c], LAMBDA r : r.returned))
        /\ \A k \in 1..Len(log[c]) :
              log[c][k].returned =>
                  /\ k <= Len(snapshot[c])
                  /\ MetricsOf(c, k) =
                        <<[metric |-> "executions", gvr |-> ControllerGVR,
                           name |-> snapshot[c][k].name,
                           failed |-> ReturnedFailure(log[c][k])],
                          [metric |-> "reconcileTime", gvr |-> ControllerGVR,
                           name |-> snapshot[c][k].name,
                           failed |-> ReturnedFailure(log[c][k])]>>

\* a pass over three handlers, the first succeeding, the second failing, the
\* third ignored, has reported six events, the second pair as failed
C13_Witness ==
    /\ pc["c1"] = "done"
    /\ Len(log["c1"]) = 3
    /\ log["c1"][1].err = NilErr
    /\ log["c1"][2].err = PlainErr("b")
    /\ log["c1"][3].err = WrapErr("skip", ErrIgnore)
    /\ snapshot["c1"][2].name = "h2"
    /\ Len(metrics["c1"]) = 6
    /\ metrics["c1"][3].failed /\ metrics["c1"][4].failed
    /\ ~metrics["c1"][1].failed /\ ~metrics["c1"][6].failed


(***************************************************************************)
(* C14: the pass over an empty snapshot.                                   *)
(***************************************************************************)
\* the call took its snapshot and the snapshot has no entry
EmptySnapshot(c) == HasSnapshot(c) /\ snapshot[c] = <<>>

\* C14: a call whose snapshot is empty invokes no handler, starts no
\* handler-level span, reports no handler metric, and returns nil: it does
\* not fault, and what it returns is the nil error.
C14_EmptySnapshotReturnsNil ==
    \A c \in Calls :
        EmptySnapshot(c) =>
            /\ log[c] = <<>>
            /\ hspans[c] = <<>>
            /\ metrics[c] = <<>>
            /\ pc[c] \notin {"running", "panic"}
            /\ pc[c] = "done" => ret[c] = NilRet


(***************************************************************************)
(* Properties of the carrier, Extract and Inject.                          *)
(***************************************************************************)
\* the annotation map the carrier sees: that of the object when the object
\* has metadata, none otherwise
CarrierAnn(h) == IF cobj.kind = "meta" THEN h[cobj.ref] ELSE NilAnn

\* C15: Keys returns exactly the keys of the annotation map of the object,
\* each once, no value, no empty padding entry, and the empty sequence when
\* the object is nil, the accessor fails or the map is nil or empty; it does
\* not fault, whatever the size of the map.
C15_KeysAreTheMapKeys ==
    last.op = "Keys" =>
        /\ ~last.panic
        /\ Len(last.keys) = AnnLen(CarrierAnn(annotations))
        /\ {last.keys[i] : i \in 1..Len(last.keys)} = MapKeys(CarrierAnn(annotations))


\* C16: with a nil object the package-level Extract and Inject do nothing and
\* do not fault: Extract hands back the context it was given, no annotation
\* changes; and an OnChange call for a nil object does not fault while it
\* recovers the inbound trace context.
C16_NilObjectIsNoOp ==
    cobj = NilObj =>
        /\ last.op \in {"Extract", "Inject"} =>
              /\ ~last.panic
              /\ annotations = last.pre
              /\ last.outCtx = NoSpanContext
        /\ pc["c1"] # "panic"

\* C17: Get returns the empty string when the object is nil, the accessor
\* fails, the map is nil or empty or the key is unmapped, and the mapped
\* value otherwise, and it changes nothing; Set changes nothing when the
\* object is nil or the accessor fails; neither faults.
C17_GetSetTolerateMissing ==
    /\ last.op = "Get" =>
          /\ ~last.panic
          /\ annotations = last.pre
          /\ IF \E p \in CarrierAnn(annotations).m : p[1] = last.key
             THEN <<last.key, last.out>> \in CarrierAnn(annotations).m
             ELSE last.out = ""
    /\ (last.op = "Set" /\ cobj.kind # "meta") =>
          /\ ~last.panic
          /\ annotations = last.pre

\* a Set through the carrier of an object meta.Accessor rejects has returned
C17_Witness ==
    /\ cobj.kind = "opaque"
    /\ last.op = "Set"
    /\ last.key = "b"
    /\ annotations = last.pre

\* the span context handed to the latest Inject
LastInjected == injected[Len(injected)]

\* C18: after Inject of a valid span context into an object with metadata,
\* whatever its annotation map was (nil and empty included), Extract on that
\* object yields a valid, remote span context with the trace id and span id
\* that were injected; after a second Inject it yields those of the second.
C18_InjectExtractRoundTrip ==
    (last.op = "Extract" /\ cobj.kind = "meta" /\ injected # <<>>) =>
        /\ ~last.panic
        /\ IsValid(last.outCtx)
        /\ last.outCtx.remote
        /\ last.outCtx.traceID = LastInjected.traceID
        /\ last.outCtx.spanID = LastInjected.spanID

\* Extract after two Injects of different traces into an object that has no
\* other annotation: the context of the second comes back
C18_Witness ==
    /\ last.op = "Extract"
    /\ cobj.kind = "meta"
    /\ Len(injected) = 2
    /\ injected[1] = SpanContext("t1", "p1")
    /\ injected[2] = SpanContext("t2", "p2")
    /\ last.outCtx = [traceID |-> "t2", spanID |-> "p2", remote |-> TRUE]
    /\ MapKeys(annotations[cobj.ref]) = {TraceparentHeader}

\* C19: Extract never changes the object it is given: it reads a deep copy,
\* so every annotation of the object is what it was before the call, and a
\* nil annotation map is still nil.
C19_ExtractLeavesObject ==
    last.op = "Extract" => annotations = last.pre

\* Extract has returned for an object with metadata whose annotation map is
\* nil, and the map is nil
C19_Witness ==
    /\ last.op = "Extract"
    /\ ~last.panic
    /\ cobj.kind = "meta"
    /\ last.pre[cobj.ref].isNil
    /\ annotations[cobj.ref].isNil

\* the entries of a map under the keys other than key
Others(ann, key) == {p \in ann.m : p[1] # key}

\* the map holds value under key, once, and what pre held under other keys
WrittenInto(pre, post, key, value) ==
    /\ ~post.isNil
    /\ <<key, value>> \in post.m
    /\ \A p \in post.m : p[1] = key => p[2] = value
    /\ Others(post, key) = Others(pre, key)

\* C20: Set, and Inject through it, write into the object itself: after
\* Set(k, v) on an object with metadata its annotation map holds v under k,
\* the map being allocated when it was nil, and every other key keeps its
\* value; Inject of a valid span context writes the trace-context header in
\* the same way and Inject of an invalid one writes nothing.
C20_SetWritesLiveObject ==
    cobj.kind = "meta" =>
        /\ last.op = "Set" =>
              WrittenInto(last.pre[cobj.ref], annotations[cobj.ref], last.key, last.value)
        /\ (last.op = "Inject" /\ IsValid(last.ctx)) =>
              WrittenInto(last.pre[cobj.ref], annotations[cobj.ref],
                          TraceparentHeader, FormatTraceparent(last.ctx))
        /\ (last.op = "Inject" /\ ~IsValid(last.ctx)) => annotations = last.pre

\* Set("b", "2") on an object whose map held only a = 1
C20_Witness ==
    /\ cobj.kind = "meta"
    /\ last.op = "Set"
    /\ last.key = "b"
    /\ last.value = "2"
    /\ last.pre[cobj.ref] = Ann({<<"a", "1">>})
    /\ annotations[cobj.ref] = Ann({<<"a", "1">>, <<"b", "2">>})



(***************************************************************************)
(* Two OnChange calls for different objects.                               *)
(***************************************************************************)
\* the registrations of SpecTwo
MaxTwoRegs == 2

\* the object each of the two calls is made for
TwoObj(c) == IF c = "c1" THEN MetaObj("o1", "u1") ELSE MetaObj("o2", "u7")

\* what the handlers return in each of the two calls: the error and the
\* replacement name the call
TwoOutcomes(c) ==
    IF c = "c1"
    THEN {<<NilErr, NilObj>>, <<PlainErr("a"), NilObj>>, <<NilErr, MetaObj("r1", "u2")>>}
    ELSE {<<NilErr, NilObj>>, <<PlainErr("b"), NilObj>>, <<PlainErr("b"), MetaObj("r2", "u8")>>}

\* the SharedHandler after construction, a recording tracer installed
InitTwo ==
    /\ InitDispatch
    /\ cobj = NilObj
    /\ annotations = [r \in DispatchRefs |-> NilAnn]
    /\ last = NoOp
    /\ injected = <<>>
    /\ sdk = TRUE
    /\ NoCarrierRace
    /\ NoClientCall
    /\ NoWatch

\* a step of the OnChange call c of SpecTwo
TwoCallStep(c) ==
    \/ OnChangeMake(c, TwoObj(c))
    \/ OnChangeRLock(c)
    \/ OnChangeCopy(c)
    \/ OnChangeSetup(c)
    \/ OnChangeInvoke(c)
    \/ \E out \in TwoOutcomes(c) : OnChangeHandlerReturn(c, out[1], out[2])
    \/ OnChangeReturn(c)

NextTwo ==
    \/ \E name \in Names : Register("s1", name, MaxTwoRegs)
    \/ \E c \in Calls : OnChangeMake(c, TwoObj(c))
    \/ \E c \in Calls : OnChangeRLock(c)
    \/ \E c \in Calls : OnChangeCopy(c)
    \/ \E c \in Calls : OnChangeSetup(c)
    \/ \E c \in Calls : OnChangeInvoke(c)
    \/ \E c \in Calls : \E out \in TwoOutcomes(c) : OnChangeHandlerReturn(c, out[1], out[2])
    \/ \E c \in Calls : OnChangeReturn(c)

SpecTwo == InitTwo /\ [][NextTwo]_vars

\* the object call c holds after the handlers that returned so far: its own
\* input, replaced by its own handlers' replacements in turn
RECURSIVE OwnThreading(_, _)
OwnThreading(o, entries) ==
    IF entries = <<>> THEN o
    ELSE OwnThreading(IF Head(entries).returned THEN ThreadObject(o, Head(entries).newObj) ELSE o,
                      Tail(entries))

\* the failures of the own handlers of call c, as entries of its error
OwnFailures(c) ==
    [k \in 1..Len(Failures(c)) |-> handlerError(Failures(c)[k].name, Failures(c)[k].err)]

\* every step of call c leaves the state of the other call and the registry alone
CallStepsAreLocal ==
    \A c \in Calls : TwoCallStep(c) =>
        /\ UNCHANGED regVars
        /\ \A d \in Calls \ {c} :
              /\ obj'[d] = obj[d] /\ errs'[d] = errs[d] /\ ret'[d] = ret[d]
              /\ log'[d] = log[d] /\ snapshot'[d] = snapshot[d] /\ metrics'[d] = metrics[d]

\* the two calls hold what their own handlers produced
OwnResults ==
    \A c \in Calls :
        /\ errs[c] = OwnFailures(c)
        /\ pc[c] = "done" => ret[c] = ToErr(OwnFailures(c))
        /\ pc[c] \in {"loop", "running", "done"} => obj[c] = OwnThreading(TwoObj(c), log[c])
        /\ \A k \in 1..Len(log[c]) :
              log[c][k].objIn = OwnThreading(TwoObj(c), SubSeq(log[c], 1, k - 1))

\* C21: two concurrent OnChange calls for different objects do not interfere:
\* the error each returns holds exactly the failures of its own handler
\* invocations, the object each threads is its own input replaced by its own
\* handlers' replacements, and no step of a call changes the registry or what
\* the other call holds.
C21_CallsDoNotInterfere == []OwnResults /\ [][CallStepsAreLocal]_vars

\* both calls returned, one with its own failure and its own replacement
\* adopted, while the other returned the failure of its own handler
C21_Witness ==
    /\ pc["c1"] = "done" /\ pc["c2"] = "done"
    /\ Len(log["c1"]) = 2 /\ Len(log["c2"]) = 2
    /\ obj["c1"] = MetaObj("r1", "u2")
    /\ obj["c2"] = MetaObj("r2", "u8")
    /\ ret["c1"] = ToErr(<<handlerError("h2", PlainErr("a"))>>)
    /\ ret["c2"].type = "errorList"



(***************************************************************************)
(* Concurrent carrier operations.                                          *)
(***************************************************************************)
\* the keys and values of the concurrent operations
RaceKeys == {"a", "b"}
RaceValues == {"1", "2"}

\* the annotations the object starts with: none, an empty map, one entry
RaceInitialMaps == {<<"nil", {}>>, <<"m0", {}>>, <<"m0", {<<"a", "0">>}>>}

\* one object with metadata; each goroutine operates through a carrier
\* made by NewObjectCarrier, its own or a copy of the other's
InitRace ==
    /\ InitDispatch
    /\ cobj = NilObj
    /\ annotations = [r \in DispatchRefs |-> NilAnn]
    /\ last = NoOp
    /\ injected = <<>>
    /\ sdk = FALSE
    /\ \E im \in RaceInitialMaps :
          /\ annPtr = im[1]
          /\ maps = [m \in MapIds |-> IF m = "m0" THEN im[2] ELSE {}]
    /\ held = [k \in Carriers |-> FALSE]
    /\ carrierOf \in {[p \in Procs |-> "k1"], [p \in Procs |-> IF p = "p1" THEN "k1" ELSE "k2"]}
    /\ rp = [p \in Procs |-> IdleProc]
    /\ fatal = FALSE
    /\ NoClientCall
    /\ NoWatch

NextRace ==
    \/ \E p \in Procs, key \in RaceKeys : RaceCall(p, "Get", key, "")
    \/ \E p \in Procs, key \in RaceKeys, value \in RaceValues : RaceCall(p, "Set", key, value)
    \/ \E p \in Procs : RaceLock(p)
    \/ \E p \in Procs : RaceLoad(p)
    \/ \E p \in Procs : RaceMake(p)
    \/ \E p \in Procs, detected \in BOOLEAN : RaceAccessBegin(p, detected)
    \/ \E p \in Procs, applied \in BOOLEAN : RaceWriteEnd(p, applied)
    \/ \E p \in Procs : RaceReadEnd(p)
    \/ \E p \in Procs : RaceStore(p)
    \/ \E p \in Procs : RaceUnlock(p)

SpecRace == InitRace /\ [][NextRace]_vars

\* the carriers of the two goroutines were created separately
SeparateCarriers == carrierOf["p1"] # carrierOf["p2"]

\* goroutine p is between reading the annotations field and leaving the map
InMap(p) == rp[p].pc \in {"make", "read", "reading", "write", "writing", "store"}

\* the entries of the object's annotations
ObjectEntries == IF annPtr = "nil" THEN {} ELSE maps[annPtr]

\* C22: carrier operations of two goroutines on one object through
\* separately created carriers exclude each other on the annotation map, and
\* after two Sets of different keys both keys are present.
C22_CarriersExcludeEachOther ==
    SeparateCarriers =>
        /\ ~(InMap("p1") /\ InMap("p2"))
        /\ ~fatal
        /\ (/\ rp["p1"].pc = "done" /\ rp["p2"].pc = "done"
            /\ rp["p1"].op = "Set" /\ rp["p2"].op = "Set"
            /\ rp["p1"].key # rp["p2"].key)
           => \A p \in Procs : <<rp[p].key, rp[p].value>> \in ObjectEntries

\* the statement for goroutines that share one carrier, whose mutex is one
SharedCarrierExcludes ==
    ~SeparateCarriers =>
        /\ ~(InMap("p1") /\ InMap("p2"))
        /\ ~fatal
        /\ (/\ rp["p1"].pc = "done" /\ rp["p2"].pc = "done"
            /\ rp["p1"].op = "Set" /\ rp["p2"].op = "Set"
            /\ rp["p1"].key # rp["p2"].key)
           => \A p \in Procs : <<rp[p].key, rp[p].value>> \in ObjectEntries

\* two Sets of different keys through separate carriers on an object without
\* annotations, both returned without any overlapping map access, one key lost
C22_LostKey ==
    /\ SeparateCarriers
    /\ rp["p1"].pc = "done" /\ rp["p2"].pc = "done"
    /\ rp["p1"].op = "Set" /\ rp["p2"].op = "Set"
    /\ rp["p1"].key = "a" /\ rp["p2"].key = "b"
    /\ ~rp["p1"].raced /\ ~rp["p2"].raced
    /\ ObjectEntries = {<<"b", "1">>}



\* a valid span context was injected into the object of the carrier
\* operations, which can hold annotations
WasInjected == injected # <<>> /\ cobj.kind = "meta"

\* the step of OnChange that extracts the context of the object and starts
\* the top-level span
SetupStep(c) == pc[c] = "setup" /\ pc'[c] = "loop"

\* the top-level span a setup step starts, against what was injected
SetupLinksWhatWasInjected ==
    SetupStep("c1") =>
        LET ex == Extract(annotations, NoSpanContext, obj["c1"]).ctx IN
        /\ ~WasInjected =>
              /\ ~IsValid(ex)
              /\ span'["c1"].link = NoSpanContext
              /\ sdk => span'["c1"].sc = SpanContext(RootTraceID("c1"), TopSpanID("c1"))
        /\ WasInjected =>
              /\ ex = [LastInjected EXCEPT !.remote = TRUE]
              /\ span'["c1"].link = ex
              /\ sdk => span'["c1"].sc = SpanContext(LastInjected.traceID, TopSpanID("c1"))
        /\ (span'["c1"].link # NoSpanContext) <=> (IsValid(ex) /\ ex.remote)

C23_LinkedWitness ==
    /\ pc["c1"] = "done"
    /\ sdk
    /\ span["c1"].link = [traceID |-> "t2", spanID |-> "p1", remote |-> TRUE]
    /\ span["c1"].sc.traceID = "t2"



(***************************************************************************)
(* Deregistration under fair scheduling.                                   *)
(***************************************************************************)
\* the registrations of SpecLive
MaxLiveRegs == 2

\* registrations, cancellations, the watchers and one OnChange call
NextLive ==
    \/ \E s \in Scopes : Register(s, "h1", MaxLiveRegs)
    \/ \E s \in Scopes : s \notin ctxDone /\ Cancel(s)
    \/ \E id \in 1..MaxLiveRegs : WatcherRemove(id)
    \/ OnChangeMake("c1", InObj)
    \/ OnChangeRLock("c1")
    \/ OnChangeCopy("c1")
    \/ OnChangeSetup("c1")
    \/ OnChangeInvoke("c1")
    \/ OnChangeHandlerReturn("c1", NilErr, NilObj)
    \/ OnChangeReturn("c1")

\* the scheduler runs every goroutine that can take a step: a call that
\* holds the read lock goes on to its copy loop, and a watcher whose scope is
\* done gets the write lock if the lock is free again and again (a waiting
\* writer of a sync.RWMutex is served before later readers)
FairLive ==
    /\ WF_vars(OnChangeCopy("c1"))
    /\ \A id \in 1..MaxLiveRegs : SF_vars(WatcherRemove(id))

SpecLive == Init /\ [][NextLive]_vars /\ FairLive

\* the registration id is made in a scope that is done
ScopeDone(id) == id \in DOMAIN watcher /\ watcher[id].ctx \in ctxDone

\* the watcher of registration id has removed the entry and exited
Deregistered(id) ==
    /\ id \in DOMAIN watcher
    /\ watcher[id].pc = "exited"
    /\ id \notin Ids(handlers)

\* a snapshot that is taken holds no entry of a registration that was removed
SnapshotAfterRemoval ==
    \A c \in Calls :
        (pc[c] = "copy" /\ pc'[c] = "setup") =>
            \A id \in DOMAIN watcher :
                watcher[id].pc = "exited" => id \notin Ids(snapshot'[c])

\* C24: once the scope of a registration is cancelled (before or after
\* Register), its entry is eventually removed from the registry and its watcher
\* exits, whatever OnChange calls and registrations run meanwhile; and no
\* snapshot taken after the removal holds the entry.
C24_EventuallyDeregistered ==
    /\ \A id \in 1..MaxLiveRegs : ScopeDone(id) ~> Deregistered(id)
    /\ [][SnapshotAfterRemoval]_vars



\* the span of the k-th invocation of call c against the invocation
HandlerSpanMatches(c, k) ==
    LET sp == hspans[c][k]
        r == log[c][k]
    IN
    /\ sp.name = r.name
    /\ sp.ended = IF r.returned THEN 1 ELSE 0
    /\ sp.code = IF ReturnedFailure(r) THEN "Error" ELSE "Unset"
    /\ ReturnedFailure(r) => sp.desc = r.err.msg
    /\ sdk => sp.sc = SpanContext(span[c].sc.traceID, HandlerSpanID(c, k))

HasMetadata(o) == o # NilObj /\ ~Accessor(o).err

ClientRefs == {"o1", "res"}
ClientObjects == {MetaObj("o1", "u1"), OpaqueObj("o1")}
ClientResults == {MetaObj("res", "u1"), StatusObj("res")}

\* the outcome of the request, the annotations of the object in the response
RestErrors == {NilErr, PlainErr("x")}
ServerAnns == {NilAnn, Ann({<<"a", "1">>})}

\* the timeouts and kinds a Client is made with
ClientTimeouts == {0, 30}
ClientKinds == {"", "Pod"}

\* the annotations of the object sent: none, or the context of a trace
SentAnns == {NilAnn, Ann({<<TraceparentHeader, FormatTraceparent(SpanContext("t1", "p1"))>>})}

\* a Client after NewClient, distributed tracing at its default
InitClient ==
    /\ InitDispatch
    /\ cobj = NilObj
    /\ \E a \in SentAnns : annotations = [r \in ClientRefs |-> IF r = "o1" THEN a ELSE NilAnn]
    /\ last = NoOp
    /\ injected = <<>>
    /\ sdk \in BOOLEAN
    /\ NoCarrierRace
    /\ enabled = FALSE
    /\ clientCfg \in [timeout : ClientTimeouts, kind : ClientKinds]
    /\ lastCall = NoCall
    /\ NoWatch

NextClient ==
    \/ \E b \in BOOLEAN : SetDistributedTracingEnabled(b)
    \/ \E result \in ClientResults, restErr \in RestErrors, srv \in ServerAnns :
          ClientGet(result, restErr, srv)
    \/ \E result \in ClientResults, restErr \in RestErrors, srv \in ServerAnns :
          ClientList(result, restErr, srv)
    \/ \E o \in ClientObjects, result \in ClientResults, restErr \in RestErrors,
          srv \in ServerAnns : ClientCreate(o, result, restErr, srv)
    \/ \E o \in ClientObjects, result \in ClientResults, restErr \in RestErrors,
          srv \in ServerAnns : ClientUpdate(o, result, restErr, srv)
    \/ \E o \in ClientObjects, result \in ClientResults, restErr \in RestErrors,
          srv \in ServerAnns : ClientUpdateStatus(o, result, restErr, srv)
    \/ \E restErr \in RestErrors : ClientDelete(restErr)
    \/ \E restErr \in RestErrors : ClientDeleteCollection(restErr)
    \/ \E result \in ClientResults, restErr \in RestErrors, srv \in ServerAnns :
          ClientPatch(result, restErr, srv)

SpecClient == InitClient /\ [][NextClient]_vars

\* a step while distributed tracing is disabled leaves the annotations alone
DisabledStepKeepsAnnotations == ~enabled => annotations' = annotations

\* C28: while distributed tracing is disabled (the default), OnChange writes
\* no propagation data: no step of it changes the annotation map of any
\* object.
C28_DisabledTracingTouchesNothing == [][DisabledStepKeepsAnnotations]_vars

\* a Client operation made while distributed tracing is disabled leaves the
\* annotations as the request alone leaves them and reads no parent from them
ClientStepHonoursFlag ==
    (lastCall' # lastCall /\ ~enabled) =>
        /\ annotations' = lastCall'.pre
        /\ lastCall'.span.parent = NoSpanContext

ClientHonoursFlag == [][ClientStepHonoursFlag]_vars

\* C29: every Client operation has ended the span it started exactly once
\* when it returns, on success and on every error path, and has cancelled the
\* timeout context it created.
C29_ClientSpansEnded ==
    lastCall.op # "none" =>
        /\ lastCall.span.started
        /\ lastCall.span.ended = 1
        /\ lastCall.cancelled = IF lastCall.created THEN 1 ELSE 0

\* the operations whose deferred function calls span.End()
EndingOps == {"Get", "Create", "Update", "DeleteCollection", "Patch"}

\* the statement for the operations other than List, UpdateStatus and Delete
EndingOpsEndOnce ==
    lastCall.op \in EndingOps =>
        /\ lastCall.span.started
        /\ lastCall.span.ended = 1
        /\ lastCall.span.code = IF lastCall.err # NilErr THEN "Error" ELSE "Ok"
        /\ lastCall.cancelled = IF lastCall.created THEN 1 ELSE 0

\* the spans of List, UpdateStatus and Delete are never ended
OtherOpsNeverEnd ==
    (lastCall.op # "none" /\ lastCall.op \notin EndingOps) =>
        /\ lastCall.span.started
        /\ lastCall.span.ended = 0
        /\ lastCall.cancelled = IF lastCall.created THEN 1 ELSE 0



(***************************************************************************)
(* The watch wrapper.                                                      *)
(***************************************************************************)
\* the events of the underlying watch
MaxEvents == 2

\* the objects of watch events: a typed object, a *metav1.Status (an error
\* event), an object without type metadata
EventObjects == {MetaObj("e", "u1"), StatusObj("e"), OpaqueObj("e")}

\* the sequences of events an underlying watch sends, numbered, their
\* objects decoded without kind
EventSeqs ==
    UNION {[1..n -> EventObjects] : n \in 0..MaxEvents}

\* a Client with or without kind, Watch not yet called
InitWatch ==
    /\ InitDispatch
    /\ cobj = NilObj
    /\ annotations = [r \in DispatchRefs |-> NilAnn]
    /\ last = NoOp
    /\ injected = <<>>
    /\ sdk = FALSE
    /\ NoCarrierRace
    /\ enabled = FALSE
    /\ clientCfg \in [timeout : {0}, kind : ClientKinds]
    /\ lastCall = NoCall
    /\ \E objs \in EventSeqs :
          undEvents = [i \in 1..Len(objs) |-> [n |-> i, obj |-> objs[i], kind |-> ""]]
    /\ undClosed = FALSE
    /\ fwd = NoForwarder
    /\ delivered = <<>>
    /\ chanClosed = FALSE
    /\ consumer = "none"

NextWatch ==
    \/ \E err \in RestErrors : WatchCall(err)
    \/ ForwardReceive
    \/ ForwardSend
    \/ ForwardExit
    \/ DirectReceive
    \/ UnderlyingClose
    \/ \E n \in 0..MaxEvents, goesOn \in BOOLEAN : ConsumerStop(n, goesOn)

\* the forwarding goroutine is scheduled whenever it can take a step; its
\* send can take place when the consumer receives
FairWatch ==
    /\ WF_vars(ForwardReceive)
    /\ WF_vars(ForwardSend)
    /\ WF_vars(ForwardExit)

SpecWatch == InitWatch /\ [][NextWatch]_vars /\ FairWatch

\* Watch returned the wrapper
Wrapped == fwd.pc \in {"recv", "send", "exited"}

\* the events received from the wrapper are the events taken from the
\* underlying watch, once each and in order, but the one being sent
DeliveredInOrder ==
    /\ Len(delivered) = Len(fwd.taken) - (IF fwd.pc = "send" THEN 1 ELSE 0)
    /\ \A i \in 1..Len(delivered) :
          delivered[i].n = fwd.taken[i].n /\ delivered[i].obj = fwd.taken[i].obj

\* every event received carries the kind of the client
DeliveredWithKind == \A i \in 1..Len(delivered) : delivered[i].kind = clientCfg.kind

\* the result channel is closed only when the underlying channel is closed,
\* all its events were delivered and the goroutine is gone
ClosedAfterAll ==
    chanClosed =>
        /\ undClosed /\ undEvents = <<>>
        /\ fwd.pc = "exited"
        /\ Len(delivered) = Len(fwd.taken)

\* once the underlying channel is closed the wrapper's channel gets closed
\* and the goroutine ends
EventuallyClosed == (Wrapped /\ undClosed) ~> (chanClosed /\ fwd.pc = "exited")

\* C30: the wrapper returned by Watch for a client with a kind delivers every
\* event of the underlying watch once and in order, each with the client's
\* kind set on its object, and closes its result channel, the forwarding
\* goroutine having ended, after the underlying channel is closed and all
\* events were delivered, whatever the consumer does, a consumer that stops
\* receiving after Stop included.
C30_WatchWrapperForwardsAndCloses ==
    /\ [](Wrapped => (DeliveredInOrder /\ DeliveredWithKind /\ ClosedAfterAll))
    /\ EventuallyClosed

\* the order and closing statements alone
WrapperOrderAndClose == Wrapped => (DeliveredInOrder /\ ClosedAfterAll)

\* the kind statement for the objects that are not a *metav1.Status and have
\* type metadata
TypedDeliveredWithKind ==
    Wrapped => \A i \in 1..Len(delivered) :
                  delivered[i].obj.kind = "meta" => delivered[i].kind = clientCfg.kind

\* the closing statement for a consumer that receives until the channel is closed
EventuallyClosedForReader ==
    (Wrapped /\ undClosed) ~> (consumer = "gone" \/ (chanClosed /\ fwd.pc = "exited"))

\* the goroutine is blocked in its send for a consumer that is gone
C30_BlockedForwarder ==
    /\ fwd.pc = "send"
    /\ consumer = "gone"
    /\ undClosed
    /\ ~chanClosed

====
